---- MODULE Spec2Model ----
(***************************************************************************)
(* EternalGov: the governance decision/memory subsystem.                   *)
(*                                                                         *)
(* State: the memory layers ProposalMemory, SentimentMemory,               *)
(* OutcomeMemory and PreferenceMemory, the reasoning engines               *)
(* (VoteReasoning, JustificationReporter), the VoteCaster and the          *)
(* position of EternalGov.run_governance_cycle.                            *)
(*                                                                         *)
(* Numbers: a sentiment score s is kept as the integer 10*s (tenths), a    *)
(* confidence as a percentage, an accuracy a as the integer a*Scale and a  *)
(* category success rate r as the integer r*RateScale, so that the         *)
(* arithmetic of the code is exact (Python floats are modelled as the      *)
(* reals they approximate). A quotient is a pair <<numerator,              *)
(* denominator>>.                                                          *)
(* A missing string field (None or the empty string) is "".                *)
(***************************************************************************)
EXTENDS Integers, Sequences, FiniteSets, TLC

\* ---------------------------------------------------------------- bounds
\* number of store_proposal calls made from outside a cycle in one run
MaxStores == 3
\* number of sentiment samples recorded in one run of the model
MaxSamples == 3
\* number of record_prediction calls in one run of the model
MaxPredictions == 3
\* number of governance cycles in one run of the model
MaxCycles == 2
\* number of PreferenceMemory.record_proposal_outcome calls in one run of the model
MaxOutcomes == 3
\* number of operations on preference patterns in one run of the model
MaxPatternOps == 3
\* number of analyze_proposal calls recorded in one run of the model
MaxAnalyses == 3
\* number of VoteCaster operations called from outside in one run of the model
MaxCasterOps == 4

\* ---------------------------------------------------------------- program constants
\* eternal_gov.py:314  data.get("proposals", [])[:3]
BatchCap == 3

\* ---------------------------------------------------------------- input sets
Missing == ""
Ids == {"p1", "p2", "p3", "p4"}
\* the <<proposal_id, dao, title>> of the store calls of the model: well-formed
\* entries, and entries missing one of the three fields
StoreInputs ==
    ({"p1", "p2"} \X {"uniswap", "aave"} \X {"T1"})
    \cup {<<"p1", "uniswap", "T2">>}
    \cup {<<Missing, "uniswap", "T1">>, <<"p1", Missing, "T1">>, <<"p1", "uniswap", Missing>>}
\* the ids annotations are addressed to: a stored one and one never stored
AnnotatedIds == {"p1", "p9"}
Sources == {"forum", "twitter"}
\* scores in tenths: the thresholds of get_community_consensus (-0.6, -0.2,
\* 0.2, 0.6) and values between and beyond them
Scores == {-6, -5, -2, 2, 3, 5, 6, 7}
Outcomes == {"pass", "fail"}

\* 10^n
RECURSIVE Pow10(_)
Pow10(n) == IF n = 0 THEN 1 ELSE 10 * Pow10(n - 1)

\* accuracies are kept as multiples of 1/Scale; one decimal digit is consumed
\* by every EMA update
Scale == Pow10(MaxPredictions + 1)

\* category success rates are kept as multiples of 1/RateScale
RateScale == Pow10(MaxOutcomes + 1)

VARIABLES
    proposals,            \* ProposalMemory.proposals
    dao_index,            \* ProposalMemory.dao_index
    sentiment_entries,    \* SentimentMemory.sentiment_entries
    sentiment_trends,     \* SentimentMemory.sentiment_trends
    outcomes,             \* OutcomeMemory.outcomes
    prediction_accuracy,  \* OutcomeMemory.prediction_accuracy
    npredictions,         \* number of record_prediction calls made
    prediction_log,       \* the accuracy updates made, in order: <<organization, was_correct>>
    patterns,             \* PreferenceMemory.patterns
    voting_history,       \* PreferenceMemory.voting_history
    category_success_rate, \* PreferenceMemory.category_success_rate
    noutcomes,            \* number of PreferenceMemory.record_proposal_outcome calls made
    pattern_log,          \* the operations made on patterns, in order: <<operation, pattern id>>
    nstores,              \* number of store_proposal calls made from outside a cycle
    decision_history,     \* VoteReasoning.decision_history
    reports,              \* JustificationReporter.reports
    votes_cast,           \* VoteCaster.votes_cast
    pending_votes,        \* VoteCaster.pending_votes
    autonomous,           \* config["voting"]["autonomous"]
    require_approval,     \* config["voting"]["require_approval"]
    cycle_state,          \* position of run_governance_cycle
    cycle_dao,            \* its dao_name
    fetched,              \* its data["proposals"]
    idx,                  \* position of its loop in data["proposals"][:3]
    recommendation,       \* its local recommendation
    cycle_log,            \* what the cycle has called so far, in order
    ncycles,              \* number of cycles started
    analysis_log,         \* the analyze_proposal calls recorded, in order: [context, decision]
    caster_log,           \* the VoteCaster operations called from outside, in order: <<operation, proposal id, result>>
    last,                 \* the last operation called from outside, with its arguments
    returned              \* what the last call of a function without effect returned

propVars == <<proposals, dao_index, nstores>>
sentVars == <<sentiment_entries, sentiment_trends>>
outVars == <<outcomes, prediction_accuracy, npredictions, prediction_log>>
prefVars == <<patterns, voting_history, category_success_rate, noutcomes, pattern_log>>
engineVars == <<decision_history, reports>>
casterVars == <<votes_cast, pending_votes>>
configVars == <<autonomous, require_approval>>
cycleVars == <<cycle_state, cycle_dao, fetched, idx, recommendation, cycle_log, ncycles>>

vars == <<propVars, sentVars, outVars, prefVars, engineVars, casterVars, configVars,
          cycleVars, analysis_log, caster_log, last, returned>>

\* no governance cycle is running: the process is single-threaded and the
\* cycle's coroutines never yield, so nothing else runs inside a cycle
NoCycleRunning == cycle_state \in {"IDLE", "DONE", "FAILED"}

\* ---------------------------------------------------------------- dictionaries
\* dict.get(k, default)
Get(d, k, default) == IF k \in DOMAIN d THEN d[k] ELSE default

\* d[k] = v
Put(d, k, v) == [x \in DOMAIN d \cup {k} |-> IF x = k THEN v ELSE d[x]]

EmptyDict == [x \in {} |-> 0]

NoOp == [op |-> "none", args |-> << >>]

Min(a, b) == IF a <= b THEN a ELSE b

\* ---------------------------------------------------------------- ProposalMemory
\* variant of NewEntry: the annotations of the record it replaces are kept
NewEntryMerged(proposal_id, dao, title, body, choices, category) ==
    [proposal_id |-> proposal_id, dao |-> dao, title |-> title, body |-> body,
     choices |-> choices, category |-> category,
     reasoning_points |->
        IF proposal_id \in DOMAIN proposals
        THEN proposals[proposal_id].reasoning_points ELSE << >>,
     key_arguments |->
        IF proposal_id \in DOMAIN proposals
        THEN proposals[proposal_id].key_arguments ELSE {},
     expected_impact |->
        IF proposal_id \in DOMAIN proposals
        THEN proposals[proposal_id].expected_impact ELSE "",
     status |->
        IF proposal_id \in DOMAIN proposals
        THEN proposals[proposal_id].status ELSE "active"]

\* the ProposalMemoryEntry built by store_proposal: the given fields and the
\* dataclass defaults for the annotations (author, created_at, end_time and url
\* are carried like body and are not modelled separately; key_arguments, a
\* dict choice -> [arguments], is the set of its <<choice, argument>> pairs)
NewEntry(proposal_id, dao, title, body, choices, category) ==
    [proposal_id |-> proposal_id, dao |-> dao, title |-> title, body |-> body,
     choices |-> choices, category |-> category,
     reasoning_points |-> << >>, key_arguments |-> {},
     expected_impact |-> "", status |-> "active"]

\* dao_index after store_proposal: the id is appended unconditionally
IndexAfterStore(index, dao, proposal_id) ==
    Put(index, dao, Append(Get(index, dao, << >>), proposal_id))

\* the effect of store_proposal on the two dictionaries
StoreInto(proposal_id, dao, title, body, choices, category) ==
    /\ proposals' = Put(proposals, proposal_id,
                        NewEntry(proposal_id, dao, title, body, choices, category))
    /\ dao_index' = IndexAfterStore(dao_index, dao, proposal_id)

StoreProposal(proposal_id, dao, title, body, choices, category) ==
    /\ NoCycleRunning
    /\ UNCHANGED <<returned, analysis_log, caster_log>>
    /\ nstores < MaxStores
    /\ nstores' = nstores + 1
    /\ StoreInto(proposal_id, dao, title, body, choices, category)
    /\ last' = [op |-> "store_proposal",
                args |-> <<proposal_id, dao, title, body, choices, category>>]
    /\ UNCHANGED <<sentVars, outVars, engineVars, casterVars, configVars, prefVars, cycleVars>>

AddReasoningPoints(proposal_id, reasoning_points) ==
    /\ NoCycleRunning
    /\ UNCHANGED <<returned, analysis_log, caster_log>>
    /\ proposals' = IF proposal_id \in DOMAIN proposals
                    THEN [proposals EXCEPT ![proposal_id].reasoning_points = reasoning_points]
                    ELSE proposals
    /\ last' = [op |-> "add_reasoning_points", args |-> <<proposal_id, reasoning_points>>]
    /\ UNCHANGED <<dao_index, nstores, sentVars, outVars, engineVars, casterVars, configVars, prefVars,
                   cycleVars>>

AddKeyArguments(proposal_id, arguments) ==
    /\ NoCycleRunning
    /\ UNCHANGED <<returned, analysis_log, caster_log>>
    /\ proposals' = IF proposal_id \in DOMAIN proposals
                    THEN [proposals EXCEPT ![proposal_id].key_arguments = arguments]
                    ELSE proposals
    /\ last' = [op |-> "add_key_arguments", args |-> <<proposal_id, arguments>>]
    /\ UNCHANGED <<dao_index, nstores, sentVars, outVars, engineVars, casterVars, configVars, prefVars,
                   cycleVars>>

SetExpectedImpact(proposal_id, impact) ==
    /\ NoCycleRunning
    /\ UNCHANGED <<returned, analysis_log, caster_log>>
    /\ proposals' = IF proposal_id \in DOMAIN proposals
                    THEN [proposals EXCEPT ![proposal_id].expected_impact = impact]
                    ELSE proposals
    /\ last' = [op |-> "set_expected_impact", args |-> <<proposal_id, impact>>]
    /\ UNCHANGED <<dao_index, nstores, sentVars, outVars, engineVars, casterVars, configVars, prefVars,
                   cycleVars>>

\* variant of UpdateStatus: an unknown proposal id gets an entry holding the status
UpdateStatusCreating(proposal_id, status) ==
    /\ NoCycleRunning
    /\ UNCHANGED <<returned, analysis_log, caster_log>>
    /\ proposals' = IF proposal_id \in DOMAIN proposals
                    THEN [proposals EXCEPT ![proposal_id].status = status]
                    ELSE Put(proposals, proposal_id, [proposal_id |-> proposal_id, status |-> status])
    /\ last' = [op |-> "update_status", args |-> <<proposal_id, status>>]
    /\ UNCHANGED <<dao_index, nstores, sentVars, outVars, engineVars, casterVars, configVars, prefVars,
                   cycleVars>>

UpdateStatus(proposal_id, status) ==
    /\ NoCycleRunning
    /\ UNCHANGED <<returned, analysis_log, caster_log>>
    /\ proposals' = IF proposal_id \in DOMAIN proposals
                    THEN [proposals EXCEPT ![proposal_id].status = status]
                    ELSE proposals
    /\ last' = [op |-> "update_status", args |-> <<proposal_id, status>>]
    /\ UNCHANGED <<dao_index, nstores, sentVars, outVars, engineVars, casterVars, configVars, prefVars,
                   cycleVars>>

\* get_proposal: the entry, or None
None == [none |-> TRUE]
GetProposal(proposal_id) == Get(proposals, proposal_id, None)

\* get_dao_proposals: the entries of the ids of the organization's index
RECURSIVE EntriesOf(_)
EntriesOf(ids) ==
    IF ids = << >> THEN << >>
    ELSE IF Head(ids) \in DOMAIN proposals
         THEN <<proposals[Head(ids)]>> \o EntriesOf(Tail(ids))
         ELSE EntriesOf(Tail(ids))

GetDaoProposals(dao) == EntriesOf(Get(dao_index, dao, << >>))

\* ---------------------------------------------------------------- SentimentMemory
\* number of samples recorded so far
RECURSIVE SumLen(_, _)
SumLen(d, keys) ==
    IF keys = {} THEN 0
    ELSE LET k == CHOOSE x \in keys : TRUE
         IN Len(d[k]) + SumLen(d, keys \ {k})

TotalSamples == SumLen(sentiment_entries, DOMAIN sentiment_entries)

\* variant of EntriesAfterRecord: the entry replaces the earlier samples of
\* its source
EntriesAfterRecordReplacing(entries, proposal_id, entry) ==
    Put(entries, proposal_id,
        SelectSeq(Get(entries, proposal_id, << >>),
                  LAMBDA e : e.source # entry.source) \o <<entry>>)

\* sentiment_entries after record_sentiment: the entry is appended to the
\* proposal's list
EntriesAfterRecord(entries, proposal_id, entry) ==
    Put(entries, proposal_id, Append(Get(entries, proposal_id, << >>), entry))

\* sentiment_trends after record_sentiment: the score is appended
TrendsAfterRecord(trends, proposal_id, sentiment_score) ==
    Put(trends, proposal_id, Append(Get(trends, proposal_id, << >>), sentiment_score))

RecordSentiment(proposal_id, dao, source, sentiment_score, support_count, opposition_count) ==
    /\ NoCycleRunning
    /\ UNCHANGED <<returned, analysis_log, caster_log>>
    /\ TotalSamples < MaxSamples
    /\ LET entry == [proposal_id |-> proposal_id, dao |-> dao, source |-> source,
                     sentiment_score |-> sentiment_score,
                     support_count |-> support_count,
                     opposition_count |-> opposition_count]
       IN /\ sentiment_entries' = EntriesAfterRecord(sentiment_entries, proposal_id, entry)
          /\ sentiment_trends' = TrendsAfterRecord(sentiment_trends, proposal_id, sentiment_score)
    /\ last' = [op |-> "record_sentiment",
                args |-> <<proposal_id, dao, source, sentiment_score>>]
    /\ UNCHANGED <<propVars, outVars, engineVars, casterVars, configVars, prefVars, cycleVars>>

\* get_sentiment_trend
GetSentimentTrend(proposal_id) == Get(sentiment_trends, proposal_id, << >>)

\* ---------------------------------------------------------------- OutcomeMemory
\* variant of ParticipationRate: the division is made whatever the divisor
ParticipationRateUnchecked(participation_count, total_eligible) ==
    <<participation_count, total_eligible>>

\* participation_count / total_eligible if total_eligible > 0 else 0, as the
\* fraction <<numerator, denominator>>
ParticipationRate(participation_count, total_eligible) ==
    IF total_eligible > 0 THEN <<participation_count, total_eligible>> ELSE <<0, 1>>

RecordProposalOutcome(proposal_id, dao, passed, participation_count, total_eligible) ==
    /\ NoCycleRunning
    /\ UNCHANGED <<returned, analysis_log, caster_log>>
    /\ outcomes' = Put(outcomes, proposal_id,
                       [proposal_id |-> proposal_id, dao |-> dao, passed |-> passed,
                        participation_rate |->
                            ParticipationRate(participation_count, total_eligible),
                        participation_count |-> participation_count,
                        predicted_vs_actual |-> "None"])
    /\ last' = [op |-> "record_proposal_outcome",
                args |-> <<proposal_id, dao, passed, participation_count, total_eligible>>]
    /\ UNCHANGED <<propVars, sentVars, prediction_accuracy, npredictions, prediction_log,
                   prefVars, engineVars, casterVars, configVars, cycleVars>>

\* get_proposal_outcome: the outcome, or None
GetProposalOutcome(proposal_id) == Get(outcomes, proposal_id, None)

\* variant of Ema: a step of 0.1 up or down, whatever the current value
EmaCommutative(current_acc, was_correct) ==
    current_acc + (IF was_correct THEN Scale \div 10 ELSE 0 - (Scale \div 10))

\* variant of Ema: the average is applied twice
EmaTwice(current_acc, was_correct) ==
    LET once == (current_acc * 8 + (IF was_correct THEN Scale ELSE 0) * 2) \div 10
    IN (once * 8 + (IF was_correct THEN Scale ELSE 0) * 2) \div 10

\* the exponential moving average of _update_accuracy_metrics on scaled
\* accuracies: current_acc * 0.8 + new_value * 0.2
Ema(current_acc, was_correct) ==
    (current_acc * 8 + (IF was_correct THEN Scale ELSE 0) * 2) \div 10

\* 0.5, the accuracy of an organization that is not tracked yet
DefaultAccuracy == Scale \div 2

\* prediction_accuracy after _update_accuracy_metrics
UpdateAccuracyMetrics(accuracy, proposal_id, was_correct) ==
    IF proposal_id \in DOMAIN outcomes
    THEN LET dao == outcomes[proposal_id].dao
         IN Put(accuracy, dao, Ema(Get(accuracy, dao, DefaultAccuracy), was_correct))
    ELSE accuracy

\* variant of RecordPrediction: a prediction for a proposal without outcome
\* is counted for the organization "unknown"
RecordPredictionUntracked(proposal_id, predicted_outcome, actual_outcome) ==
    /\ NoCycleRunning
    /\ UNCHANGED <<returned, analysis_log, caster_log>>
    /\ npredictions < MaxPredictions
    /\ npredictions' = npredictions + 1
    /\ IF proposal_id \in DOMAIN outcomes
       THEN /\ outcomes' = [outcomes EXCEPT ![proposal_id].predicted_vs_actual =
                                IF predicted_outcome = actual_outcome
                                THEN "correct" ELSE "incorrect"]
            /\ prediction_accuracy' =
                    UpdateAccuracyMetrics(prediction_accuracy, proposal_id,
                                          predicted_outcome = actual_outcome)
            /\ prediction_log' = Append(prediction_log,
                                        <<outcomes[proposal_id].dao,
                                          predicted_outcome = actual_outcome>>)
       ELSE /\ prediction_accuracy' =
                    Put(prediction_accuracy, "unknown",
                        Ema(Get(prediction_accuracy, "unknown", DefaultAccuracy),
                            predicted_outcome = actual_outcome))
            /\ UNCHANGED <<outcomes, prediction_log>>
    /\ last' = [op |-> "record_prediction",
                args |-> <<proposal_id, predicted_outcome, actual_outcome>>]
    /\ UNCHANGED <<propVars, sentVars, engineVars, casterVars, configVars, prefVars, cycleVars>>

\* record_prediction; npredictions counts the calls
RecordPrediction(proposal_id, predicted_outcome, actual_outcome) ==
    /\ NoCycleRunning
    /\ UNCHANGED <<returned, analysis_log, caster_log>>
    /\ npredictions < MaxPredictions
    /\ npredictions' = npredictions + 1
    /\ IF proposal_id \in DOMAIN outcomes
       THEN /\ outcomes' = [outcomes EXCEPT ![proposal_id].predicted_vs_actual =
                                IF predicted_outcome = actual_outcome
                                THEN "correct" ELSE "incorrect"]
            /\ prediction_accuracy' =
                    UpdateAccuracyMetrics(prediction_accuracy, proposal_id,
                                          predicted_outcome = actual_outcome)
            /\ prediction_log' = Append(prediction_log,
                                        <<outcomes[proposal_id].dao,
                                          predicted_outcome = actual_outcome>>)
       ELSE UNCHANGED <<outcomes, prediction_accuracy, prediction_log>>
    /\ last' = [op |-> "record_prediction",
                args |-> <<proposal_id, predicted_outcome, actual_outcome>>]
    /\ UNCHANGED <<propVars, sentVars, engineVars, casterVars, configVars, prefVars, cycleVars>>

\* get_dao_outcomes: the records of the organization (as a set: records of
\* different ids differ, and their order is not used)
GetDaoOutcomes(dao) == {outcomes[id] : id \in {x \in DOMAIN outcomes : outcomes[x].dao = dao}}

\* variant of GetPassRate: 0 for an organization without outcomes
GetPassRateZero(dao) ==
    LET os == GetDaoOutcomes(dao)
    IN IF os = {} THEN <<0, 1>>
       ELSE <<Cardinality({o \in os : o.passed}), Cardinality(os)>>

\* get_pass_rate, as a fraction: 0.5 for an organization without outcomes
GetPassRate(dao) ==
    LET os == GetDaoOutcomes(dao)
    IN IF os = {} THEN <<1, 2>>
       ELSE <<Cardinality({o \in os : o.passed}), Cardinality(os)>>

\* sum(prediction_accuracy.values())
RECURSIVE SumAccuracies(_, _)
SumAccuracies(accuracy, keys) ==
    IF keys = {} THEN 0
    ELSE LET k == CHOOSE x \in keys : TRUE
         IN accuracy[k] + SumAccuracies(accuracy, keys \ {k})

\* get_prediction_accuracy(dao), as a fraction <<numerator, denominator>> of
\* scaled accuracies: the value of the organization (0.5 if it is not
\* tracked), or without an organization (None or "") the mean over the
\* tracked organizations (0.5 if there is none)
GetPredictionAccuracy(dao) ==
    IF dao # Missing THEN <<Get(prediction_accuracy, dao, DefaultAccuracy), 1>>
    ELSE IF DOMAIN prediction_accuracy = {} THEN <<DefaultAccuracy, 1>>
    ELSE <<SumAccuracies(prediction_accuracy, DOMAIN prediction_accuracy),
           Cardinality(DOMAIN prediction_accuracy)>>

\* ---------------------------------------------------------------- PreferenceMemory
\* variant of RateAfterOutcome: the weights of record_prediction
RateAfterOutcomeSlow(current_rate, passed) ==
    (current_rate * 8 + (IF passed THEN RateScale ELSE 0) * 2) \div 10

\* current_rate * 0.7 + 1.0 * 0.3 if passed, current_rate * 0.7 + 0.0 * 0.3
\* otherwise, on scaled rates
RateAfterOutcome(current_rate, passed) ==
    (current_rate * 7 + (IF passed THEN RateScale ELSE 0) * 3) \div 10

\* 0.5, the rate of a category that is not tracked yet
DefaultRate == RateScale \div 2

\* PreferenceMemory.record_proposal_outcome
PreferenceRecordProposalOutcome(proposal_id, category, votes, passed, participation_rate) ==
    /\ NoCycleRunning
    /\ UNCHANGED <<returned, analysis_log, caster_log>>
    /\ noutcomes < MaxOutcomes
    /\ noutcomes' = noutcomes + 1
    /\ voting_history' = Put(voting_history, proposal_id, votes)
    /\ category_success_rate' =
            Put(category_success_rate, category,
                RateAfterOutcome(Get(category_success_rate, category, DefaultRate), passed))
    /\ last' = [op |-> "preference.record_proposal_outcome",
                args |-> <<proposal_id, category, votes, passed, participation_rate>>]
    /\ UNCHANGED <<propVars, sentVars, outVars, patterns, pattern_log, engineVars,
                   casterVars, configVars, cycleVars>>

\* variant of GetCategorySuccessRate: a category not tracked reads as 0
GetCategorySuccessRateZero(category) == Get(category_success_rate, category, 0)

\* get_category_success_rate
GetCategorySuccessRate(category) == Get(category_success_rate, category, DefaultRate)

\* pattern_id = f"preference_{category}_{value_name}"
PatternId(category, value_name) == "preference_" \o category \o "_" \o value_name

\* variant of NewPattern: the confidence of the pattern it replaces is kept
NewPatternKeepingConfidence(value_name, category, description, proposals_indicating) ==
    [pattern_id |-> PatternId(category, value_name),
     category |-> category,
     description |-> description,
     confidence |->
        IF PatternId(category, value_name) \in DOMAIN patterns
        THEN patterns[PatternId(category, value_name)].confidence ELSE 50,
     supporting_proposals |-> proposals_indicating,
     historical_weight |-> 50]

\* the PreferencePattern built by record_community_value; confidence and
\* weight in percent
NewPattern(value_name, category, description, proposals_indicating) ==
    [pattern_id |-> PatternId(category, value_name),
     category |-> category,
     description |-> description,
     confidence |-> 50,
     supporting_proposals |-> proposals_indicating,
     historical_weight |-> 50]

RecordCommunityValue(value_name, category, description, proposals_indicating) ==
    /\ NoCycleRunning
    /\ UNCHANGED <<returned, analysis_log, caster_log>>
    /\ Len(pattern_log) < MaxPatternOps
    /\ patterns' = Put(patterns, PatternId(category, value_name),
                       NewPattern(value_name, category, description, proposals_indicating))
    /\ pattern_log' = Append(pattern_log, <<"record", PatternId(category, value_name)>>)
    /\ last' = [op |-> "record_community_value",
                args |-> <<value_name, category, description, proposals_indicating>>]
    /\ UNCHANGED <<propVars, sentVars, outVars, voting_history, category_success_rate,
                   noutcomes, engineVars, casterVars, configVars, cycleVars>>

Max(a, b) == IF a >= b THEN a ELSE b

\* max(0.0, min(1.0, new_confidence)), in percent
ClampConfidence(new_confidence) == Max(0, Min(100, new_confidence))

UpdatePatternConfidence(pattern_id, new_confidence) ==
    /\ NoCycleRunning
    /\ UNCHANGED <<returned, analysis_log, caster_log>>
    /\ Len(pattern_log) < MaxPatternOps
    /\ patterns' = IF pattern_id \in DOMAIN patterns
                   THEN [patterns EXCEPT ![pattern_id].confidence =
                                             ClampConfidence(new_confidence)]
                   ELSE patterns
    /\ pattern_log' = Append(pattern_log, <<"update", pattern_id>>)
    /\ last' = [op |-> "update_pattern_confidence", args |-> <<pattern_id, new_confidence>>]
    /\ UNCHANGED <<propVars, sentVars, outVars, voting_history, category_success_rate,
                   noutcomes, engineVars, casterVars, configVars, cycleVars>>

\* ---------------------------------------------------------------- aggregation
\* sum(e.sentiment_score for e in entries)
RECURSIVE SumScores(_)
SumScores(entries) ==
    IF entries = << >> THEN 0
    ELSE Head(entries).sentiment_score + SumScores(Tail(entries))

RECURSIVE SumSupport(_)
SumSupport(entries) ==
    IF entries = << >> THEN 0
    ELSE Head(entries).support_count + SumSupport(Tail(entries))

RECURSIVE SumOpposition(_)
SumOpposition(entries) ==
    IF entries = << >> THEN 0
    ELSE Head(entries).opposition_count + SumOpposition(Tail(entries))

\* a + b on fractions <<numerator, denominator>>
FracAdd(a, b) == <<a[1] * b[2] + b[1] * a[2], a[2] * b[2]>>

\* a = b and a > b on fractions with positive denominators
FracEq(a, b) == a[1] * b[2] = b[1] * a[2]
FracGt(a, b) == a[1] * b[2] > b[1] * a[2]

\* the sum of the per-source mean scores of the sources srcs
RECURSIVE SumSourceMeans(_, _)
SumSourceMeans(entries, srcs) ==
    IF srcs = {} THEN <<0, 1>>
    ELSE LET src == CHOOSE x \in srcs : TRUE
             of == SelectSeq(entries, LAMBDA e : e.source = src)
         IN FracAdd(<<SumScores(of), Len(of)>>, SumSourceMeans(entries, srcs \ {src}))

\* variant of OverallScore: the mean of the per-source means
OverallScoreOfSourceMeans(entries) ==
    LET srcs == {entries[i].source : i \in 1..Len(entries)}
        total == SumSourceMeans(entries, srcs)
    IN <<total[1], total[2] * Cardinality(srcs)>>

\* overall_score = sum(e.sentiment_score for e in entries) / len(entries), as
\* the fraction <<sum, count>> of tenths
OverallScore(entries) == <<SumScores(entries), Len(entries)>>

\* get_proposal_sentiment: {} for a proposal without samples, otherwise the
\* overall score and the per-source aggregate dicts; a mean is the fraction
\* <<sum, count>> of tenths
GetProposalSentiment(proposal_id) ==
    LET entries == Get(sentiment_entries, proposal_id, << >>)
        srcs == {entries[i].source : i \in 1..Len(entries)}
        of(src) == SelectSeq(entries, LAMBDA e : e.source = src)
    IN IF entries = << >>
       THEN [empty |-> TRUE, by_source |-> EmptyDict]
       ELSE [empty |-> FALSE,
             proposal_id |-> proposal_id,
             overall_sentiment_score |-> OverallScore(entries),
             by_source |->
                [src \in srcs |->
                    [t |-> "dict",
                     average_sentiment |-> <<SumScores(of(src)), Len(of(src))>>,
                     support_count |-> SumSupport(of(src)),
                     opposition_count |-> SumOpposition(of(src)),
                     entries |-> Len(of(src))]],
             total_entries |-> Len(entries)]

\* variant of ConsensusOf: the thresholds are inclusive
ConsensusOfInclusive(score) ==
    IF ~FracGt(<<6, 1>>, score) THEN "strong_support"
    ELSE IF ~FracGt(<<2, 1>>, score) THEN "moderate_support"
    ELSE IF ~FracGt(<<-2, 1>>, score) THEN "neutral"
    ELSE IF ~FracGt(<<-6, 1>>, score) THEN "concern"
    ELSE "strong_opposition"

\* the if/elif chain of get_community_consensus on a score in tenths
ConsensusOf(score) ==
    IF FracGt(score, <<6, 1>>) THEN "strong_support"
    ELSE IF FracGt(score, <<2, 1>>) THEN "moderate_support"
    ELSE IF FracGt(score, <<-2, 1>>) THEN "neutral"
    ELSE IF FracGt(score, <<-6, 1>>) THEN "concern"
    ELSE "strong_opposition"

\* get_community_consensus
GetCommunityConsensus(proposal_id) ==
    LET sentiment == GetProposalSentiment(proposal_id)
    IN IF sentiment.empty THEN "neutral"
       ELSE ConsensusOf(sentiment.overall_sentiment_score)

\* ---------------------------------------------------------------- VoteReasoning
\* a Python float of n tenths, as a dictionary value
Float(n) == [t |-> "float", v |-> n]

RECURSIVE SumFloats(_, _)
SumFloats(d, keys) ==
    IF keys = {} THEN 0
    ELSE LET k == CHOOSE x \in keys : TRUE
         IN d[k].v + SumFloats(d, keys \ {k})

\* sum(d.values()) raises TypeError when a value is not a number
SumRaises(d) == \E k \in DOMAIN d : d[k].t # "float"

TypeError == [error |-> "TypeError"]

\* variant of RuleOf: the thresholds of the first rule are inclusive
RuleOfInclusive(sumS, nS, sumP, nP) ==
    IF sumS >= 5 * nS /\ sumP >= 5 * nP THEN 1
    ELSE IF sumS < (-3) * nS \/ sumP < 3 * nP THEN 2
    ELSE 3

\* the if/elif/else of _generate_decision on overall_sentiment = sumS / nS
\* and preference_alignment = sumP / nP (tenths): the number of the rule
RuleOf(sumS, nS, sumP, nP) ==
    IF sumS > 5 * nS /\ sumP > 5 * nP THEN 1
    ELSE IF sumS < (-3) * nS \/ sumP < 3 * nP THEN 2
    ELSE 3

\* _generate_decision: the decision, or the TypeError raised by the sums
GenerateDecision(context) ==
    LET cs == context.community_sentiment
        hp == context.historical_preferences
        opts == context.voting_options
    IN IF SumRaises(cs) \/ SumRaises(hp) THEN TypeError
       ELSE
       LET sumS == SumFloats(cs, DOMAIN cs)
           nS == IF DOMAIN cs = {} THEN 1 ELSE Cardinality(DOMAIN cs)
           sumP == SumFloats(hp, DOMAIN hp)
           nP == IF DOMAIN hp = {} THEN 1 ELSE Cardinality(DOMAIN hp)
           branch == RuleOf(sumS, nS, sumP, nP)
           choice == CASE branch = 1 -> IF Len(opts) > 0 THEN opts[1] ELSE "for"
                      [] branch = 2 -> IF Len(opts) > 0 THEN opts[Len(opts)] ELSE "against"
                      [] OTHER -> IF Len(opts) > 1 THEN opts[2] ELSE "abstain"
           primary == CASE branch = 1 -> <<"strong_community_support", "alignment_with_values">>
                       [] branch = 2 -> <<"community_concerns", "misalignment_with_preferences">>
                       [] OTHER -> <<"mixed_signals">>
           secondary == CASE branch = 1 -> <<"positive_expected_impact">>
                         [] branch = 2 -> <<"potential_risks">>
                         [] OTHER -> <<"requires_further_analysis">>
       IN [error |-> "none",
           proposal_id |-> context.proposal_id,
           choice |-> choice,
           confidence |-> CASE branch = 1 -> 75 [] branch = 2 -> 60 [] OTHER -> 50,
           reasoning_summary |-> [title |-> context.proposal_title, choice |-> choice,
                                  primary |-> primary, secondary |-> secondary,
                                  sentiment |-> cs,
                                  impact |-> context.expected_impact],
           primary_factors |-> primary,
           secondary_factors |-> secondary,
           alignment_with_dao_values |-> <<sumS * nP + sumP * nS, 2 * nS * nP>>,
           risk_assessment |-> IF branch = 1 THEN "low" ELSE "medium"]

\* variant of AnalyzeProposal: the decision the history held for the proposal
\* id before the call is returned when there is one
AnalyzeProposalStale(context) ==
    /\ NoCycleRunning
    /\ LET decision == GenerateDecision(context)
           stale == IF context.proposal_id \in DOMAIN decision_history
                    THEN decision_history[context.proposal_id]
                    ELSE decision
       IN /\ decision_history' = IF decision.error = "none"
                                 THEN Put(decision_history, context.proposal_id, decision)
                                 ELSE decision_history
          /\ returned' = [op |-> "analyze_proposal", args |-> <<stale>>]
    /\ UNCHANGED caster_log
    /\ last' = [op |-> "analyze_proposal", args |-> <<context>>]
    /\ UNCHANGED <<propVars, sentVars, outVars, reports, casterVars, configVars, prefVars, cycleVars>>

\* analyze_proposal: the decision is stored under the proposal id and
\* returned; an exception of _generate_decision leaves the history as it was.
\* The record of the call in analysis_log is kept by the specification
AnalyzeProposal(context) ==
    /\ NoCycleRunning
    /\ LET decision == GenerateDecision(context)
       IN /\ decision_history' = IF decision.error = "none"
                                 THEN Put(decision_history, context.proposal_id, decision)
                                 ELSE decision_history
          /\ returned' = [op |-> "analyze_proposal", args |-> <<decision>>]
    /\ UNCHANGED caster_log
    /\ last' = [op |-> "analyze_proposal", args |-> <<context>>]
    /\ UNCHANGED <<propVars, sentVars, outVars, reports, casterVars, configVars, prefVars, cycleVars>>

\* the ReasoningContext built by generate_vote_recommendation
CycleContext(proposal_id, dao_name) ==
    LET proposal == proposals[proposal_id]
    IN [proposal_id |-> proposal_id,
        proposal_title |-> proposal.title,
        dao |-> dao_name,
        voting_options |-> proposal.choices,
        community_sentiment |-> GetProposalSentiment(proposal_id).by_source,
        historical_preferences |-> [k \in {"support"} |-> Float(6)],
        expected_impact |-> proposal.expected_impact]

\* ---------------------------------------------------------------- JustificationReporter
\* hashlib.sha256(reasoning.encode()).hexdigest()[:16] of the text
\* _build_reasoning_summary builds from the fields of summary, for the
\* summaries of the third rule without sentiment lines and without impact
\* text: the digests of the texts for (T1, AGAINST), (T1, ABSTAIN) and
\* (T2, ABSTAIN); choice.upper() makes "abstain" and "Abstain" the same text
Sha256PrefixOfSummary(summary) ==
    LET plain == /\ summary.primary = <<"mixed_signals">>
                 /\ summary.secondary = <<"requires_further_analysis">>
                 /\ summary.sentiment = EmptyDict
                 /\ summary.impact = ""
    IN CASE plain /\ summary.title = "T1" /\ summary.choice = "Against" -> "08a8601da834ba72"
         [] plain /\ summary.title = "T1" /\ summary.choice \in {"abstain", "Abstain"}
               -> "c43f57c45dbe604f"
         [] plain /\ summary.title = "T2" /\ summary.choice \in {"abstain", "Abstain"}
               -> "8c1a18974aa20dab"

\* the VoteJustificationReport that generate_vote_recommendation has
\* create_justification_report build (the transparency score is not part of it)
CreateJustificationReport(proposal_id, decision, sentiment_data, data_sources) ==
    [proposal_id |-> proposal_id,
     vote_choice |-> decision.choice,
     confidence |-> decision.confidence,
     reasoning_hash |-> Sha256PrefixOfSummary(decision.reasoning_summary),
     detailed_reasoning |-> decision.reasoning_summary,
     data_sources |-> data_sources,
     sentiment_snapshot |-> sentiment_data,
     preference_alignment |-> decision.alignment_with_dao_values,
     risk_level |-> decision.risk_assessment]

CycleDataSources == {"sentiment_analysis", "historical_patterns", "proposal_analysis"}

\* the reasoning texts of the direct create_justification_report calls
ReasoningTexts == {"", "Vote for.", "Vote against."}

\* a reasoning text, the texts one character away from it (the last or the
\* first character replaced, the last one removed, one inserted), and the
\* first 16 characters of these texts
EditedTexts ==
    {"Vote for the plan.", "Vote for the plan!", "vote for the plan.", "Vote for the plan",
     "Vote for the plans."}

HashedTexts == ReasoningTexts \cup EditedTexts \cup {"Vote for the pla", "vote for the pla"}

\* hashlib.sha256(reasoning.encode()).hexdigest()[:16] of these texts
Sha256Prefix ==
    [reasoning \in HashedTexts |->
        CASE reasoning = "" -> "e3b0c44298fc1c14"
          [] reasoning = "Vote for." -> "3282d8a1768ec096"
          [] reasoning = "Vote against." -> "249271d834aef7a0"
          [] reasoning = "Vote for the plan." -> "62e16f2122ac235e"
          [] reasoning = "Vote for the plan!" -> "fb04522a9ffdf151"
          [] reasoning = "vote for the plan." -> "ee288288328c8eea"
          [] reasoning = "Vote for the plan" -> "db848f41871ec9d9"
          [] reasoning = "Vote for the plans." -> "16593815db7f7bb8"
          [] reasoning = "Vote for the pla" -> "e3d7c06a2528220f"
          [] OTHER -> "ed8f5a92bac4eea2"]

\* variant of HashJustification: the text, not the digest, is cut to 16
\* characters
HashJustificationOfPrefix(reasoning) ==
    Sha256Prefix[SubSeq(reasoning, 1, Min(16, Len(reasoning)))]

\* variant of HashJustification: the digest is salted with the number of
\* reports built before
HashJustificationSalted(reasoning) ==
    <<Sha256Prefix[reasoning], Cardinality(DOMAIN reports)>>

\* _hash_justification
HashJustification(reasoning) == Sha256Prefix[reasoning]

\* _create_summary: the text is determined by the choice, the confidence, the
\* mean of the sentiment data, the alignment and the risk level
CreateSummary(vote_choice, confidence, sentiment_data, preference_alignment, risk_level) ==
    [vote_choice |-> vote_choice, confidence |-> confidence,
     sentiment_avg |->
        IF DOMAIN sentiment_data = {} THEN <<0, 1>>
        ELSE <<SumFloats(sentiment_data, DOMAIN sentiment_data),
               Cardinality(DOMAIN sentiment_data)>>,
     preference_alignment |-> preference_alignment, risk_level |-> risk_level]

\* the VoteJustificationReport built by a create_justification_report call
\* at the time timestamp (the transparency score is not modelled here)
NewReport(proposal_id, vote_choice, confidence, reasoning, sentiment_data, preference_alignment, risk_level, data_sources, timestamp) ==
    [proposal_id |-> proposal_id,
     vote_choice |-> vote_choice,
     timestamp |-> timestamp,
     confidence |-> confidence,
     reasoning_hash |-> HashJustification(reasoning),
     summary |-> CreateSummary(vote_choice, confidence, sentiment_data,
                               preference_alignment, risk_level),
     detailed_reasoning |-> reasoning,
     data_sources |-> data_sources,
     sentiment_snapshot |-> sentiment_data,
     preference_alignment |-> preference_alignment,
     risk_level |-> risk_level]

\* create_justification_report called directly; the sum of _create_summary
\* raises TypeError on sentiment data that are not numbers, before the report
\* is built
CreateReport(proposal_id, vote_choice, confidence, reasoning, sentiment_data, preference_alignment, risk_level, data_sources, timestamp) ==
    /\ NoCycleRunning
    /\ UNCHANGED <<returned, analysis_log, caster_log>>
    /\ reports' = IF SumRaises(sentiment_data) THEN reports
                  ELSE Put(reports, proposal_id,
                           NewReport(proposal_id, vote_choice, confidence, reasoning,
                                     sentiment_data, preference_alignment, risk_level,
                                     data_sources, timestamp))
    /\ last' = [op |-> "create_justification_report",
                args |-> <<proposal_id, vote_choice, confidence, reasoning, sentiment_data,
                           preference_alignment, risk_level, data_sources, timestamp>>]
    /\ UNCHANGED <<propVars, sentVars, outVars, decision_history, casterVars, configVars, prefVars,
                   cycleVars>>

\* detail_keywords of _calculate_transparency_score
DetailKeywords == {"analyze", "consider", "evidence", "data", "pattern", "trend"}

\* a reasoning text as _calculate_transparency_score reads it: len(reasoning)
\* and the detail keywords that occur in reasoning.lower()
Text(length, keywords) == [length |-> length, keywords |-> keywords]

\* variant of CalculateTransparencyScore: the source thresholds are tested
\* from the smallest up, so that any number of sources adds 0.2
CalculateTransparencyScoreFirstSource(reasoning, data_sources) ==
    LET length_term == IF reasoning.length > 1000 THEN 30
                       ELSE IF reasoning.length > 500 THEN 20 ELSE 0
        num_sources == IF data_sources = None \/ DOMAIN data_sources = {} THEN 0
                       ELSE Cardinality(DOMAIN data_sources)
        source_term == IF num_sources >= 1 THEN 20
                       ELSE IF num_sources >= 2 THEN 30
                       ELSE IF num_sources >= 3 THEN 40 ELSE 0
        keyword_count == Cardinality(reasoning.keywords)
    IN Min(100, length_term + source_term + Min(30, keyword_count * 5))

\* _calculate_transparency_score, in hundredths; data_sources is a dict or None
CalculateTransparencyScore(reasoning, data_sources) ==
    LET length_term == IF reasoning.length > 1000 THEN 30
                       ELSE IF reasoning.length > 500 THEN 20 ELSE 0
        num_sources == IF data_sources = None \/ DOMAIN data_sources = {} THEN 0
                       ELSE Cardinality(DOMAIN data_sources)
        source_term == IF num_sources >= 3 THEN 40
                       ELSE IF num_sources >= 2 THEN 30
                       ELSE IF num_sources >= 1 THEN 20 ELSE 0
        keyword_count == Cardinality(reasoning.keywords)
    IN Min(100, length_term + source_term + Min(30, keyword_count * 5))

\* _calculate_transparency_score called on a text and its data sources
TransparencyScore(reasoning, data_sources) ==
    /\ NoCycleRunning
    /\ UNCHANGED <<analysis_log, caster_log>>
    /\ returned' = [op |-> "_calculate_transparency_score",
                    args |-> <<CalculateTransparencyScore(reasoning, data_sources)>>]
    /\ last' = [op |-> "_calculate_transparency_score", args |-> <<reasoning, data_sources>>]
    /\ UNCHANGED <<propVars, sentVars, outVars, engineVars, casterVars, configVars, prefVars,
                   cycleVars>>

\* ---------------------------------------------------------------- VoteCaster
\* variant of VotesAfterCast: the transaction hash is stored as the
\* justification hash
VotesAfterCastTransactionHash(votes, proposal_id, dao, choice, justification_hash) ==
    Put(votes, proposal_id,
        [proposal_id |-> proposal_id, dao |-> dao, vote_choice |-> choice,
         transaction_hash |-> "0x", justification_hash |-> "0x"])

\* votes_cast after cast_vote_on_chain
VotesAfterCast(votes, proposal_id, dao, choice, justification_hash) ==
    Put(votes, proposal_id,
        [proposal_id |-> proposal_id, dao |-> dao, vote_choice |-> choice,
         transaction_hash |-> "0x", justification_hash |-> justification_hash])

\* pending_votes after cast_vote_with_delegation_option(allow_human_override=True)
PendingAfterQueue(pending, proposal_id, dao, choice, justification_hash) ==
    Append(pending, [proposal_id |-> proposal_id, dao |-> dao, choice |-> choice,
                     justification_hash |-> justification_hash,
                     allow_human_override |-> TRUE,
                     status |-> "pending_if_delegated"])

\* cast_vote_with_delegation_option: the vote record is appended to
\* pending_votes, and cast at once when humans may not override
CastVoteWithDelegationOption(proposal_id, choice, dao, justification_hash, allow_human_override) ==
    /\ NoCycleRunning
    /\ Len(caster_log) < MaxCasterOps
    /\ pending_votes' =
          IF allow_human_override
          THEN PendingAfterQueue(pending_votes, proposal_id, dao, choice, justification_hash)
          ELSE Append(pending_votes,
                      [proposal_id |-> proposal_id, dao |-> dao, choice |-> choice,
                       justification_hash |-> justification_hash,
                       allow_human_override |-> FALSE, status |-> "casting"])
    /\ votes_cast' =
          IF allow_human_override THEN votes_cast
          ELSE VotesAfterCast(votes_cast, proposal_id, dao, choice, justification_hash)
    /\ caster_log' = Append(caster_log,
                            <<"cast_vote_with_delegation_option", proposal_id,
                              allow_human_override>>)
    /\ last' = [op |-> "cast_vote_with_delegation_option",
                args |-> <<proposal_id, choice, dao, justification_hash, allow_human_override>>]
    /\ UNCHANGED <<propVars, sentVars, outVars, prefVars, engineVars, configVars, cycleVars,
                   analysis_log, returned>>

\* next((v for v in pending_votes if v["proposal_id"] == proposal_id), None):
\* the position of the first pending vote of the proposal, or 0
FirstPending(pending, proposal_id) ==
    IF \E i \in 1..Len(pending) : pending[i].proposal_id = proposal_id
    THEN CHOOSE i \in 1..Len(pending) :
            /\ pending[i].proposal_id = proposal_id
            /\ \A j \in 1..(i - 1) : pending[j].proposal_id # proposal_id
    ELSE 0

\* pending_votes.remove(pending) of the vote at position i
WithoutPending(pending, i) == SubSeq(pending, 1, i - 1) \o SubSeq(pending, i + 1, Len(pending))

\* approve_pending_vote: the first pending vote of the proposal is removed
\* and cast with its dao, choice and justification hash; without one nothing
\* happens and None is returned
ApprovePendingVote(proposal_id) ==
    /\ NoCycleRunning
    /\ Len(caster_log) < MaxCasterOps
    /\ LET i == FirstPending(pending_votes, proposal_id)
       IN /\ pending_votes' = IF i = 0 THEN pending_votes ELSE WithoutPending(pending_votes, i)
          /\ votes_cast' =
                IF i = 0 THEN votes_cast
                ELSE VotesAfterCast(votes_cast, proposal_id, pending_votes[i].dao,
                                    pending_votes[i].choice,
                                    pending_votes[i].justification_hash)
          /\ caster_log' = Append(caster_log, <<"approve_pending_vote", proposal_id, i # 0>>)
    /\ last' = [op |-> "approve_pending_vote", args |-> <<proposal_id>>]
    /\ UNCHANGED <<propVars, sentVars, outVars, prefVars, engineVars, configVars, cycleVars,
                   analysis_log, returned>>

\* reject_pending_vote: the first pending vote of the proposal is removed and
\* True returned; without one nothing happens and False is returned
RejectPendingVote(proposal_id) ==
    /\ NoCycleRunning
    /\ Len(caster_log) < MaxCasterOps
    /\ LET i == FirstPending(pending_votes, proposal_id)
       IN /\ pending_votes' = IF i = 0 THEN pending_votes ELSE WithoutPending(pending_votes, i)
          /\ caster_log' = Append(caster_log, <<"reject_pending_vote", proposal_id, i # 0>>)
          /\ returned' = [op |-> "reject_pending_vote", args |-> <<i # 0>>]
    /\ last' = [op |-> "reject_pending_vote", args |-> <<proposal_id>>]
    /\ UNCHANGED <<propVars, sentVars, outVars, prefVars, engineVars, votes_cast, configVars,
                   cycleVars, analysis_log>>

\* ---------------------------------------------------------------- EternalGov
\* config.SUPPORTED_DAOS
SupportedDaos == {"uniswap", "aave", "compound", "makerdao"}

\* the proposals the Aggregator can return, by id
Catalogue ==
    [id \in Ids |->
        [proposal_id |-> id,
         title |-> IF id = "p3" THEN "T2" ELSE "T1",
         body |-> "B1",
         choices |-> CASE id = "p1" -> <<"For", "Against", "Abstain">>
                       [] id = "p2" -> << >>
                       [] id = "p3" -> <<"Yes">>
                       [] OTHER -> <<"For", "Against">>]]

FeedOrder == <<"p1", "p2", "p3", "p4">>

\* the lists of proposals the Aggregator returns in the model
Feeds ==
    {[i \in 1..n |-> Catalogue[FeedOrder[i]]] : n \in 0..Len(FeedOrder)}
    \cup {<<Catalogue["p2"], Catalogue["p1"]>>}

\* variant of BatchOf: no cap
BatchOfAll(data_proposals) == data_proposals

\* data.get("proposals", [])[:3]

BatchOf(data_proposals) == SubSeq(data_proposals, 1, Min(BatchCap, Len(data_proposals)))

Batch == BatchOf(fetched)

\* the stores after the loop of ingest_governance_data has stored the proposals
RECURSIVE IngestProposals(_, _, _)
IngestProposals(ps, dao_name, feed) ==
    IF feed = << >> THEN ps
    ELSE LET p == Head(feed)
         IN IngestProposals(
                Put(ps, p.proposal_id,
                    NewEntry(p.proposal_id, dao_name, p.title, p.body, p.choices, "general")),
                dao_name, Tail(feed))

RECURSIVE IngestIndex(_, _, _)
IngestIndex(index, dao_name, feed) ==
    IF feed = << >> THEN index
    ELSE IngestIndex(IndexAfterStore(index, dao_name, Head(feed).proposal_id),
                     dao_name, Tail(feed))

NoRecommendation == [present |-> FALSE]

\* run_governance_cycle is called
StartCycle(dao_name) ==
    /\ NoCycleRunning
    /\ UNCHANGED <<returned, analysis_log, caster_log>>
    /\ ncycles < MaxCycles
    /\ ncycles' = ncycles + 1
    /\ cycle_state' = "INGEST"
    /\ cycle_dao' = dao_name
    /\ fetched' = << >>
    /\ idx' = 0
    /\ recommendation' = NoRecommendation
    /\ cycle_log' = << >>
    /\ last' = [op |-> "run_governance_cycle", args |-> <<dao_name>>]
    /\ UNCHANGED <<propVars, sentVars, outVars, engineVars, casterVars, configVars, prefVars>>

\* variant of AfterFailedFetch: the Aggregator is called again
AfterFailedFetchRetry(dao_name) == "INGEST"

\* where the cycle goes after a failed Aggregator call: the exception leaves
\* ingest_governance_data and run_governance_cycle's try, and is caught by
\* its except, which prints and returns
AfterFailedFetch(dao_name) == "FAILED"

\* ingest_governance_data: the Aggregator is called (available: whether the
\* call returns; feed: what it returns) and every returned proposal is stored
Ingest(available, feed) ==
    /\ cycle_state = "INGEST"
    /\ UNCHANGED <<returned, analysis_log, caster_log>>
    /\ IF cycle_dao \notin SupportedDaos
       THEN /\ cycle_state' = "DONE"
            /\ UNCHANGED <<propVars, fetched, idx, cycle_log>>
       ELSE IF ~available
       THEN /\ cycle_state' = AfterFailedFetch(cycle_dao)
            /\ cycle_log' = Append(cycle_log, <<"FETCH_FAILED", cycle_dao>>)
            /\ UNCHANGED <<propVars, fetched, idx>>
       ELSE /\ proposals' = IngestProposals(proposals, cycle_dao, feed)
            /\ dao_index' = IngestIndex(dao_index, cycle_dao, feed)
            /\ UNCHANGED nstores
            /\ fetched' = feed
            /\ idx' = 1
            /\ cycle_log' = Append(cycle_log, <<"FETCH", cycle_dao>>)
            /\ cycle_state' = IF BatchOf(feed) = << >> THEN "DONE" ELSE "ANALYZE"
    /\ UNCHANGED <<sentVars, outVars, engineVars, casterVars, configVars, prefVars,
                   cycle_dao, recommendation, ncycles, last>>

\* analyze_proposal: reads the stores, its result is dropped by the cycle
Analyze ==
    /\ cycle_state = "ANALYZE"
    /\ UNCHANGED <<returned, analysis_log, caster_log>>
    /\ cycle_log' = Append(cycle_log, <<"ANALYZE", Batch[idx].proposal_id>>)
    /\ cycle_state' = "DECIDE"
    /\ UNCHANGED <<propVars, sentVars, outVars, engineVars, casterVars, configVars, prefVars,
                   cycle_dao, fetched, idx, recommendation, ncycles, last>>

\* generate_vote_recommendation up to analyze_proposal of VoteReasoning; when
\* _generate_decision raises, the exception leaves the loop and is caught by
\* the except of run_governance_cycle
Decide ==
    /\ cycle_state = "DECIDE"
    /\ UNCHANGED <<returned, analysis_log, caster_log>>
    /\ LET proposal_id == Batch[idx].proposal_id
       IN IF proposal_id \notin DOMAIN proposals
          THEN /\ cycle_state' = "CAST"
               /\ UNCHANGED <<decision_history, recommendation, cycle_log, idx>>
          ELSE LET decision == GenerateDecision(CycleContext(proposal_id, cycle_dao))
               IN IF decision.error # "none"
                  THEN /\ cycle_state' = "FAILED"
                       /\ idx' = idx
                       /\ cycle_log' = Append(cycle_log, <<"ERROR", proposal_id>>)
                       /\ UNCHANGED <<decision_history, recommendation>>
                  ELSE /\ decision_history' = Put(decision_history, proposal_id, decision)
                       /\ recommendation' = [present |-> TRUE, decision |-> decision]
                       /\ cycle_log' = Append(cycle_log, <<"DECIDE", proposal_id>>)
                       /\ cycle_state' = "JUSTIFY"
                       /\ idx' = idx
    /\ UNCHANGED <<propVars, sentVars, outVars, reports, casterVars, configVars, prefVars,
                   cycle_dao, fetched, ncycles, last>>

\* generate_vote_recommendation from create_justification_report on
Justify ==
    /\ cycle_state = "JUSTIFY"
    /\ UNCHANGED <<returned, analysis_log, caster_log>>
    /\ LET proposal_id == Batch[idx].proposal_id
           report == CreateJustificationReport(
                        proposal_id, recommendation.decision,
                        GetProposalSentiment(proposal_id).by_source, CycleDataSources)
       IN /\ reports' = Put(reports, proposal_id, report)
          /\ recommendation' = [present |-> TRUE, decision |-> recommendation.decision,
                                report |-> report]
          /\ cycle_log' = Append(cycle_log, <<"JUSTIFY", proposal_id>>)
    /\ cycle_state' = "CAST"
    /\ UNCHANGED <<propVars, sentVars, outVars, decision_history, casterVars, configVars, prefVars,
                   cycle_dao, fetched, idx, ncycles, last>>

\* whether the cycle hands the recommendation to cast_vote
CallsCastVote == recommendation.present /\ autonomous

\* the end of the loop body: cast_vote if there is a recommendation and voting
\* is autonomous, then the next proposal of the batch
Cast ==
    /\ cycle_state = "CAST"
    /\ UNCHANGED <<returned, analysis_log, caster_log>>
    /\ LET proposal_id == Batch[idx].proposal_id
       IN IF CallsCastVote
          THEN IF require_approval
               THEN /\ pending_votes' = PendingAfterQueue(pending_votes, proposal_id, cycle_dao,
                                                         recommendation.decision.choice,
                                                         recommendation.report.reasoning_hash)
                    /\ cycle_log' = Append(cycle_log, <<"QUEUE", proposal_id>>)
                    /\ UNCHANGED votes_cast
               ELSE /\ votes_cast' = VotesAfterCast(votes_cast, proposal_id, cycle_dao,
                                                   recommendation.decision.choice,
                                                   recommendation.report.reasoning_hash)
                    /\ cycle_log' = Append(cycle_log, <<"CAST", proposal_id>>)
                    /\ UNCHANGED pending_votes
          ELSE UNCHANGED <<votes_cast, pending_votes, cycle_log>>
    /\ recommendation' = NoRecommendation
    /\ IF idx < Len(Batch)
       THEN /\ idx' = idx + 1
            /\ cycle_state' = "ANALYZE"
       ELSE /\ idx' = idx
            /\ cycle_state' = "DONE"
    /\ UNCHANGED <<propVars, sentVars, outVars, engineVars, configVars, prefVars,
                   cycle_dao, fetched, ncycles, last>>

\* a call of a reading operation op on a key, which returns value
Query(op, key, value) ==
    /\ NoCycleRunning
    /\ returned' = [op |-> op, args |-> <<value>>]
    /\ last' = [op |-> op, args |-> <<key>>]
    /\ UNCHANGED <<propVars, sentVars, outVars, prefVars, engineVars, casterVars, configVars,
                   cycleVars, analysis_log, caster_log>>

\* ---------------------------------------------------------------- specifications
Init ==
    /\ proposals = EmptyDict
    /\ dao_index = EmptyDict
    /\ nstores = 0
    /\ sentiment_entries = EmptyDict
    /\ sentiment_trends = EmptyDict
    /\ outcomes = EmptyDict
    /\ prediction_accuracy = EmptyDict
    /\ npredictions = 0
    /\ prediction_log = << >>
    /\ patterns = EmptyDict
    /\ voting_history = EmptyDict
    /\ category_success_rate = EmptyDict
    /\ noutcomes = 0
    /\ pattern_log = << >>
    /\ decision_history = EmptyDict
    /\ reports = EmptyDict
    /\ votes_cast = EmptyDict
    /\ pending_votes = << >>
    /\ autonomous \in BOOLEAN
    /\ require_approval \in BOOLEAN
    /\ cycle_state = "IDLE"
    /\ cycle_dao = ""
    /\ fetched = << >>
    /\ idx = 0
    /\ recommendation = NoRecommendation
    /\ cycle_log = << >>
    /\ ncycles = 0
    /\ last = NoOp
    /\ returned = NoOp
    /\ analysis_log = << >>
    /\ caster_log = << >>

\* the organizations cycles are run for: two supported ones and an unsupported one
CycleDaos == {"uniswap", "aave", "lido"}

\* governance cycles, with sentiment recorded between them
Next ==
    \/ \E dao_name \in CycleDaos : StartCycle(dao_name)
    \/ \E available \in BOOLEAN, feed \in Feeds : Ingest(available, feed)
    \/ Analyze
    \/ Decide
    \/ Justify
    \/ Cast
    \/ \E proposal_id \in {"p1", "p2"} :
          RecordSentiment(proposal_id, "uniswap", "forum", 5, 1, 0)

Spec == Init /\ [][Next]_vars

\* the ProposalMemory operations
NextProposalStore ==
    \/ \E inp \in StoreInputs :
          StoreProposal(inp[1], inp[2], inp[3], "B1", <<"For", "Against">>, "general")
    \/ \E proposal_id \in AnnotatedIds : AddReasoningPoints(proposal_id, <<"r1">>)
    \/ \E proposal_id \in AnnotatedIds : AddKeyArguments(proposal_id, {<<"For", "a1">>})
    \/ \E proposal_id \in AnnotatedIds : SetExpectedImpact(proposal_id, "impact")
    \/ \E proposal_id \in AnnotatedIds : UpdateStatus(proposal_id, "ended")

SpecProposalStore == Init /\ [][NextProposalStore]_vars

\* the SentimentMemory operations
NextSentimentStore ==
    \/ \E source \in Sources, score \in Scores :
          RecordSentiment("p1", "uniswap", source, score, 1, 0)
    \/ \E source \in Sources : RecordSentiment("p2", "uniswap", source, 5, 0, 1)

SpecSentimentStore == Init /\ [][NextSentimentStore]_vars

\* the OutcomeMemory operations
NextOutcomeStore ==
    \/ \E proposal_id \in {"p1", "p2"}, dao \in {"uniswap", "aave"}, passed \in BOOLEAN :
          RecordProposalOutcome(proposal_id, dao, passed, 1, 4)
    \/ \E proposal_id \in {"p1", "p2"}, predicted \in Outcomes, actual \in Outcomes :
          RecordPrediction(proposal_id, predicted, actual)

SpecOutcomeStore == Init /\ [][NextOutcomeStore]_vars

\* the community_sentiment maps of the direct analyze_proposal calls: empty,
\* one source, and two sources whose mean is 0.5 or 0.6
SentimentMaps ==
    {EmptyDict}
    \cup {[k \in {"forum"} |-> Float(v)] : v \in {-4, -3, 5, 6}}
    \cup {[k \in {"forum", "twitter"} |-> Float(IF k = "forum" THEN 8 ELSE v)] : v \in {2, 4}}

\* their historical_preferences maps
PreferenceMaps ==
    {EmptyDict} \cup {[k \in {"support"} |-> Float(v)] : v \in {2, 3, 5, 6}}

\* their voting_options
OptionLists == {<< >>, <<"For">>, <<"For", "Against">>, <<"For", "Against", "Abstain">>}

\* the contexts of the calls: every combination for p1, one for p2
Contexts ==
    {[proposal_id |-> "p1", proposal_title |-> "T1", dao |-> "uniswap",
      voting_options |-> opts, community_sentiment |-> cs,
      historical_preferences |-> hp, expected_impact |-> ""] :
        opts \in OptionLists, cs \in SentimentMaps, hp \in PreferenceMaps}
    \cup {[proposal_id |-> "p2", proposal_title |-> "T2", dao |-> "uniswap",
           voting_options |-> << >>,
           community_sentiment |-> [k \in {"forum"} |-> Float(6)],
           historical_preferences |-> [k \in {"support"} |-> Float(6)],
           expected_impact |-> ""]}

\* the VoteReasoning operations
NextDecisionEngine ==
    \E context \in Contexts : AnalyzeProposal(context) /\ UNCHANGED analysis_log

SpecDecisionEngine == Init /\ [][NextDecisionEngine]_vars

\* the JustificationReporter operations: reports for p1 with every choice,
\* text, sentiment snapshot, data sources and time, and reports for p2
NextJustification ==
    \/ \E vote_choice \in {"for", "against"}, reasoning \in ReasoningTexts,
          sentiment_data \in {EmptyDict, [k \in {"forum"} |-> Float(6)]},
          data_sources \in {EmptyDict, [k \in {"sentiment_analysis"} |-> "c1"]},
          timestamp \in {"t1", "t2"} :
          CreateReport("p1", vote_choice, IF vote_choice = "for" THEN 75 ELSE 60,
                       reasoning, sentiment_data, <<6, 1>>,
                       IF vote_choice = "for" THEN "low" ELSE "medium",
                       data_sources, timestamp)
    \/ \E reasoning \in ReasoningTexts, timestamp \in {"t1", "t2"} :
          CreateReport("p2", "abstain", 50, reasoning, EmptyDict, <<3, 1>>, "medium",
                       EmptyDict, timestamp)

SpecJustification == Init /\ [][NextJustification]_vars

Categories == {"security", "treasury"}

\* the learning operations: outcomes recorded in PreferenceMemory and in
\* OutcomeMemory, and predictions
NextLearning ==
    \/ \E category \in Categories, passed \in BOOLEAN :
          PreferenceRecordProposalOutcome(
              "p1", category, [c \in {"For", "Against"} |-> IF passed THEN 3 ELSE 1],
              passed, <<1, 4>>)
    \/ \E dao \in {"uniswap", "aave"} : RecordProposalOutcome("p1", dao, TRUE, 1, 4)
    \/ \E predicted \in Outcomes : RecordPrediction("p1", predicted, "pass")

SpecLearning == Init /\ [][NextLearning]_vars

\* the <<participation_count, total_eligible>> of the outcome records, the
\* second in thousands of voters (45000 of 200000)
Participations == {<<1, 4>>, <<45, 200>>, <<3, 0>>, <<3, -1>>}

\* the OutcomeMemory records: outcomes of p1 with every participation, outcomes
\* of p2, and correct predictions for p1
NextOutcomeRecords ==
    \/ \E dao \in {"uniswap", "aave"}, passed \in BOOLEAN, part \in Participations :
          RecordProposalOutcome("p1", dao, passed, part[1], part[2])
    \/ \E dao \in {"uniswap", "aave"}, passed \in BOOLEAN :
          RecordProposalOutcome("p2", dao, passed, 1, 4)
    \/ RecordPrediction("p1", "pass", "pass")

SpecOutcomeRecords == Init /\ [][NextOutcomeRecords]_vars

\* the <<value_name, category>> of the recorded values; the last two have the
\* same pattern id
ValueKeys ==
    {<<"audits", "security">>, <<"core_audits", "security">>, <<"audits", "security_core">>}

\* the pattern ids confidence updates are addressed to: two recorded ones and
\* one never recorded
UpdatedPatternIds ==
    {PatternId("security", "audits"), PatternId("security", "core_audits"),
     PatternId("treasury", "thrift")}

\* the preference patterns operations; confidences in percent
NextPatternStore ==
    \/ \E key \in ValueKeys :
          \/ RecordCommunityValue(key[1], key[2], "d1", <<"p1">>)
          \/ RecordCommunityValue(key[1], key[2], "d2", <<"p1", "p2">>)
    \/ \E pattern_id \in UpdatedPatternIds, new_confidence \in {-50, 30, 150} :
          UpdatePatternConfidence(pattern_id, new_confidence)

SpecPatternStore == Init /\ [][NextPatternStore]_vars

\* the texts scored: the empty text, and texts on both sides of the two
\* length thresholds with every set of detail keywords
TextLengths == {500, 501, 1000, 1001}

Texts ==
    {Text(0, {})} \cup {Text(length, keywords) : length \in TextLengths, keywords \in SUBSET DetailKeywords}

\* the data sources of a report: none given, or a dict of up to four sources
SourceNames == <<"sentiment_analysis", "historical_patterns", "proposal_analysis", "forum">>

DataSourceDicts ==
    {None} \cup {[k \in {SourceNames[i] : i \in 1..n} |-> "membase"] : n \in 0..4}

\* the transparency score of every text with every number of sources
NextTransparency ==
    \E reasoning \in Texts, data_sources \in DataSourceDicts :
        TransparencyScore(reasoning, data_sources)

SpecTransparency == Init /\ [][NextTransparency]_vars

\* the contexts analyzed repeatedly: for p1 one context for each rule of the
\* decision and one more for the second rule, and the context of p2
RepeatedContexts ==
    {context \in Contexts :
        /\ context.voting_options \in {<< >>, <<"For", "Against", "Abstain">>}
        /\ \/ /\ context.voting_options # << >>
              /\ context.community_sentiment \in {[k \in {"forum"} |-> Float(v)] : v \in {-4, 5, 6}}
              /\ context.historical_preferences = [k \in {"support"} |-> Float(6)]
           \/ /\ context.community_sentiment = [k \in {"forum"} |-> Float(6)]
              /\ context.historical_preferences \in {[k \in {"support"} |-> Float(v)] : v \in {2, 6}}}

\* analyze_proposal called again and again, every call recorded with the
\* decision it returned
NextAnalyses ==
    \E context \in RepeatedContexts :
        /\ Len(analysis_log) < MaxAnalyses
        /\ AnalyzeProposal(context)
        /\ analysis_log' = Append(analysis_log,
                                  [context |-> context, decision |-> returned'.args[1]])

SpecAnalyses == Init /\ [][NextAnalyses]_vars

\* a proposal id and a pattern id nothing is ever stored under
UnknownId == "p9"
UnknownPatternId == PatternId("treasury", "thrift")

\* the stores filled for p1 and for one pattern, and every operation of the
\* stores addressed to the unknown keys (and a status update of p1)
NextUnknownKeys ==
    \/ StoreProposal("p1", "uniswap", "T1", "B1", <<"For", "Against">>, "general")
    \/ RecordSentiment("p1", "uniswap", "forum", 5, 1, 0)
    \/ RecordProposalOutcome("p1", "uniswap", TRUE, 1, 4)
    \/ RecordCommunityValue("audits", "security", "d1", <<"p1">>)
    \/ AddReasoningPoints(UnknownId, <<"r1">>)
    \/ AddKeyArguments(UnknownId, {<<"For", "a1">>})
    \/ SetExpectedImpact(UnknownId, "impact")
    \/ \E proposal_id \in {"p1", UnknownId} : UpdateStatus(proposal_id, "ended")
    \/ UpdatePatternConfidence(UnknownPatternId, 30)
    \/ Query("get_proposal", UnknownId, GetProposal(UnknownId))
    \/ Query("get_proposal_outcome", UnknownId, GetProposalOutcome(UnknownId))
    \/ Query("get_proposal_sentiment", UnknownId, GetProposalSentiment(UnknownId))
    \/ Query("get_sentiment_trend", UnknownId, GetSentimentTrend(UnknownId))

SpecUnknownKeys == Init /\ [][NextUnknownKeys]_vars

\* reports of p1 and p2 built from the edited texts
NextEditedReports ==
    \E proposal_id \in {"p1", "p2"}, reasoning \in EditedTexts, timestamp \in {"t1", "t2"} :
        CreateReport(proposal_id, "for", 75, reasoning, EmptyDict, <<6, 1>>, "low",
                     EmptyDict, timestamp)

SpecEditedReports == Init /\ [][NextEditedReports]_vars

\* the <<choice, justification hash>> of the votes handed to the VoteCaster
QueuedVotes == {<<"Against", "08a8601da834ba72">>, <<"abstain", "c43f57c45dbe604f">>}

\* the VoteCaster operations on pending votes: votes of p1 and p2 queued or
\* cast at once, approved and rejected
NextPendingVotes ==
    \/ \E vote \in QueuedVotes, allow_human_override \in BOOLEAN :
          CastVoteWithDelegationOption("p1", vote[1], "uniswap", vote[2], allow_human_override)
    \/ CastVoteWithDelegationOption("p2", "abstain", "uniswap", "c43f57c45dbe604f", TRUE)
    \/ \E proposal_id \in {"p1", "p2"} : ApprovePendingVote(proposal_id)
    \/ \E proposal_id \in {"p1", "p2"} : RejectPendingVote(proposal_id)

SpecPendingVotes == Init /\ [][NextPendingVotes]_vars

\* ---------------------------------------------------------------- properties: the cycle
\* the ids the running (or last) cycle has logged with an event of the kind
LoggedIds(kind) ==
    LET evs == SelectSeq(cycle_log, LAMBDA ev : ev[1] = kind)
    IN [i \in 1..Len(evs) |-> evs[i][2]]

Logged(kind, id) == \E j \in 1..Len(cycle_log) : cycle_log[j] = <<kind, id>>

FetchSucceeded == \E j \in 1..Len(cycle_log) : cycle_log[j][1] = "FETCH"

FetchFailed == \E j \in 1..Len(cycle_log) : cycle_log[j][1] = "FETCH_FAILED"

CycleEnded == cycle_state \in {"DONE", "FAILED"}

FetchedIds == [i \in 1..Len(fetched) |-> fetched[i].proposal_id]

\* C1: a failure on one proposal of the batch does not abort the batch: a
\* cycle whose INGEST succeeded has, when it ends, analyzed every proposal of
\* its batch, and a proposal whose decision failed is followed by the next one.
C1_FailureIsolated ==
    (CycleEnded /\ FetchSucceeded) =>
        \A i \in 1..Len(Batch) : Logged("ANALYZE", Batch[i].proposal_id)

\* C2: when the Aggregator call of INGEST fails, the cycle ends as failed and
\* nothing else happens in it: no proposal is analyzed, decided or justified
\* and no vote is cast or queued.
C2_AfterFailure ==
    FetchFailed =>
        /\ cycle_state = "FAILED"
        /\ Len(cycle_log) = 1
        /\ fetched = << >>
        /\ ~recommendation.present

\* neither the failing INGEST step nor any step of the failed cycle changes a
\* proposal, a decision, a report or a vote
C2_Step ==
    (FetchFailed \/ FetchFailed') => UNCHANGED <<propVars, engineVars, casterVars>>

C2_IngestFailureFatal == []C2_AfterFailure /\ [][C2_Step]_vars

\* the second cycle fails in INGEST after a first one has produced decisions
C2_Witness ==
    /\ cycle_state = "FAILED"
    /\ cycle_log = << <<"FETCH_FAILED", "uniswap">> >>
    /\ ncycles = 2
    /\ decision_history # EmptyDict

\* C3: a cycle transmits a vote only if autonomous voting is enabled, and with
\* autonomous voting disabled every decision of the cycle is queued as a
\* pending vote.
C3_DisabledVotesQueued ==
    /\ (\E id \in Ids : Logged("CAST", id)) => autonomous
    /\ (CycleEnded /\ ~autonomous) =>
          \A id \in Ids :
              Logged("DECIDE", id) =>
                  \E k \in 1..Len(pending_votes) : pending_votes[k].proposal_id = id

\* C4: the FAILED state is entered only from INGEST.
C4_FailedOnlyFromIngest ==
    [][cycle_state' = "FAILED" => cycle_state \in {"INGEST", "FAILED"}]_vars

\* C5: a cycle analyzes at most the first 3 returned proposals, in the
\* returned order and one at a time (every event of a proposal lies between
\* its ANALYZE and the next proposal's ANALYZE, and the previous proposal was
\* justified before the next is analyzed), and no other proposal gets a
\* decision or a vote in the cycle.
C5_Order ==
    LET analyzed == LoggedIds("ANALYZE")
        firstThree == SubSeq(FetchedIds, 1, Min(3, Len(fetched)))
        perProposal == {"DECIDE", "JUSTIFY", "CAST", "QUEUE", "ERROR"}
        \* the id of the latest ANALYZE event at or before position j
        current(j) ==
            LET before == {k \in 1..j : cycle_log[k][1] = "ANALYZE"}
            IN IF before = {} THEN "" ELSE
               cycle_log[CHOOSE k \in before : \A m \in before : m <= k][2]
    IN /\ Len(analyzed) <= 3
       /\ analyzed = SubSeq(firstThree, 1, Len(analyzed))
       /\ \A j \in 1..Len(cycle_log) :
             /\ cycle_log[j][1] \in perProposal => cycle_log[j][2] = current(j)
             /\ (cycle_log[j][1] = "ANALYZE" /\ j > 2) =>
                    Logged("JUSTIFY", current(j - 1))
             /\ cycle_log[j][1] = "JUSTIFY" => cycle_log[j - 1] = <<"DECIDE", cycle_log[j][2]>>
             /\ cycle_log[j][1] = "DECIDE" => cycle_log[j - 1] = <<"ANALYZE", cycle_log[j][2]>>
       /\ \A id \in Ids :
             (Logged("DECIDE", id) \/ Logged("CAST", id) \/ Logged("QUEUE", id)) =>
                 \E i \in 1..Len(firstThree) : firstThree[i] = id

\* a step gives a decision, a report, a vote or a pending vote only to one of
\* the first 3 proposals the running cycle fetched
C5_Step ==
    LET firstThree == {fetched[i].proposal_id : i \in 1..Min(3, Len(fetched))}
        written(d, e) == {id \in DOMAIN e : id \notin DOMAIN d \/ e[id] # d[id]}
    IN /\ written(decision_history, decision_history') \subseteq firstThree
       /\ written(reports, reports') \subseteq firstThree
       /\ written(votes_cast, votes_cast') \subseteq firstThree
       /\ \A k \in (Len(pending_votes) + 1)..Len(pending_votes') :
              pending_votes'[k].proposal_id \in firstThree

C5_BatchCapSequential == []C5_Order /\ [][C5_Step]_vars

C5_Witness ==
    /\ cycle_state = "DONE"
    /\ Len(fetched) = 4
    /\ LoggedIds("JUSTIFY") = <<"p1", "p2", "p3">>
    /\ LoggedIds("CAST") = <<"p1", "p2", "p3">>

\* ---------------------------------------------------------------- properties: OutcomeMemory
\* C6: a record_prediction call for a proposal with a recorded outcome moves
\* the accuracy of that outcome's organization by one EMA step,
\* acc' = acc * 0.8 + (1.0 if correct else 0.0) * 0.2 with acc = 0.5 for an
\* organization not tracked yet (0.5 and a correct prediction give 0.6), and
\* leaves the accuracy of every other organization alone.
C6_Step ==
    (npredictions' = npredictions + 1 /\ last'.args[1] \in DOMAIN outcomes) =>
        LET dao == outcomes[last'.args[1]].dao
            correct == last'.args[2] = last'.args[3]
            acc == IF dao \in DOMAIN prediction_accuracy
                   THEN prediction_accuracy[dao] ELSE Scale \div 2
        IN /\ dao \in DOMAIN prediction_accuracy'
           /\ 10 * prediction_accuracy'[dao] = 8 * acc + (IF correct THEN 2 * Scale ELSE 0)
           /\ (dao \notin DOMAIN prediction_accuracy /\ correct) =>
                  10 * prediction_accuracy'[dao] = 6 * Scale
           /\ DOMAIN prediction_accuracy' = DOMAIN prediction_accuracy \cup {dao}
           /\ \A other \in DOMAIN prediction_accuracy \ {dao} :
                  prediction_accuracy'[other] = prediction_accuracy[other]

GivenFields(entry) ==
    <<entry.proposal_id, entry.dao, entry.title, entry.body, entry.choices, entry.category>>

\* C7: store_proposal replaces the record of the id: right after a store call
\* get_proposal(id) is exactly the given fields with every annotation at its
\* default, and no later operation other than a store of the same id changes
\* the given fields.
C7_AfterStore ==
    last.op = "store_proposal" =>
        /\ last.args[1] \in DOMAIN proposals
        /\ GivenFields(GetProposal(last.args[1])) = last.args
        /\ GetProposal(last.args[1]).reasoning_points = << >>
        /\ GetProposal(last.args[1]).key_arguments = {}
        /\ GetProposal(last.args[1]).expected_impact = ""
        /\ GetProposal(last.args[1]).status = "active"

C7_Step ==
    \A id \in DOMAIN proposals :
        (nstores' = nstores \/ last'.args[1] # id) =>
            /\ id \in DOMAIN proposals'
            /\ GivenFields(proposals'[id]) = GivenFields(proposals[id])

C7_StoreReplaces == []C7_AfterStore /\ [][C7_Step]_vars

\* p1 has been stored twice under uniswap, the second time with another title
C7_Witness ==
    /\ last.op = "store_proposal"
    /\ last.args[1] = "p1"
    /\ last.args[3] = "T2"
    /\ "uniswap" \in DOMAIN dao_index
    /\ Len(SelectSeq(dao_index["uniswap"], LAMBDA id : id = "p1")) >= 2
    /\ proposals["p1"].title = "T2"
    /\ proposals["p1"].status = "active"

\* C8: the organization index holds each proposal id at most once per
\* organization, so get_dao_proposals returns each proposal once.
C8_IndexNoDuplicates ==
    \A dao \in DOMAIN dao_index :
        \A i, j \in 1..Len(dao_index[dao]) :
            i # j => dao_index[dao][i] # dao_index[dao][j]

\* C9: a store call whose entry misses its id, its organization or its title
\* leaves the proposal map and the organization index unchanged.
C9_RejectsMalformed ==
    [][(nstores' = nstores + 1 /\ \E k \in 1..3 : last'.args[k] = Missing) =>
          (proposals' = proposals /\ dao_index' = dao_index)]_vars

\* ---------------------------------------------------------------- properties: SentimentMemory
ScoresOf(entries) == [i \in 1..Len(entries) |-> entries[i].sentiment_score]

IsPrefix(s, t) == Len(s) <= Len(t) /\ SubSeq(t, 1, Len(s)) = s

\* C10: the trend of a proposal is the scores of its samples in recording
\* order; no step changes or removes a recorded sample, and a record call
\* appends exactly one sample (the recorded one) and one score.
C10_TrendIsScores ==
    /\ DOMAIN sentiment_trends = DOMAIN sentiment_entries
    /\ \A id \in DOMAIN sentiment_entries :
          GetSentimentTrend(id) = ScoresOf(sentiment_entries[id])

C10_Step ==
    /\ \A id \in DOMAIN sentiment_entries :
          /\ id \in DOMAIN sentiment_entries'
          /\ IsPrefix(sentiment_entries[id], sentiment_entries'[id])
    /\ (last'.op = "record_sentiment" /\ (last' # last \/ sentVars' # sentVars)) =>
          LET id == last'.args[1]
              old == Get(sentiment_entries, id, << >>)
          IN /\ Len(sentiment_entries'[id]) = Len(old) + 1
             /\ sentiment_entries'[id][Len(old) + 1].source = last'.args[3]
             /\ sentiment_entries'[id][Len(old) + 1].sentiment_score = last'.args[4]
             /\ sentiment_trends'[id] = Append(Get(sentiment_trends, id, << >>), last'.args[4])
             /\ \A other \in DOMAIN sentiment_entries' \ {id} :
                    /\ other \in DOMAIN sentiment_entries
                    /\ sentiment_entries'[other] = sentiment_entries[other]

C10_AppendOnly == []C10_TrendIsScores /\ [][C10_Step]_vars

\* two samples of one source and one of another recorded for p1
C10_Witness ==
    /\ "p1" \in DOMAIN sentiment_entries
    /\ Len(sentiment_entries["p1"]) = 3
    /\ sentiment_entries["p1"][1].source = sentiment_entries["p1"][3].source
    /\ sentiment_entries["p1"][1].source # sentiment_entries["p1"][2].source
    /\ GetSentimentTrend("p1") = <<5, 3, -5>>

\* the sum of a sequence of numbers
RECURSIVE SumSeq(_)
SumSeq(s) == IF s = << >> THEN 0 ELSE Head(s) + SumSeq(Tail(s))

\* C11: for every proposal with at least one sample the overall score of
\* get_proposal_sentiment is the sum of all recorded scores divided by the
\* number of samples, whatever their sources: a sample of 0.3 from one source
\* and one of 0.5 from another give 0.4, and two samples of 0.5 and 0.3 from one
\* source with one of -0.5 from another give 0.1 (the mean of the per-source
\* means would be -0.05).
C11_OverallIsMeanOfSamples ==
    \A id \in DOMAIN sentiment_entries :
        LET recorded == GetSentimentTrend(id)
            res == GetProposalSentiment(id)
            by_source == [i \in 1..Len(recorded) |-> sentiment_entries[id][i].source]
        IN /\ ~res.empty
           /\ res.total_entries = Len(recorded)
           /\ res.overall_sentiment_score[2] > 0
           /\ FracEq(res.overall_sentiment_score, <<SumSeq(recorded), Len(recorded)>>)
           /\ (Len(recorded) = 2 /\ by_source[1] # by_source[2]
                 /\ {recorded[1], recorded[2]} = {3, 5}) =>
                  FracEq(res.overall_sentiment_score, <<4, 1>>)
           /\ (recorded = <<5, 3, -5>> /\ by_source[1] = by_source[2]
                 /\ by_source[3] # by_source[1]) =>
                  FracEq(res.overall_sentiment_score, <<1, 1>>)

\* two samples of one source and one of another, where the mean of the samples
\* (0.1) is not the mean of the per-source means
C11_Witness ==
    /\ "p1" \in DOMAIN sentiment_entries
    /\ GetSentimentTrend("p1") = <<5, 3, -5>>
    /\ sentiment_entries["p1"][1].source = "forum"
    /\ sentiment_entries["p1"][2].source = "forum"
    /\ sentiment_entries["p1"][3].source = "twitter"
    /\ FracEq(GetProposalSentiment("p1").overall_sentiment_score, <<1, 1>>)
    /\ ~FracEq(OverallScoreOfSourceMeans(sentiment_entries["p1"]),
               GetProposalSentiment("p1").overall_sentiment_score)

\* C12: the consensus of a proposal without samples is neutral; otherwise,
\* with m the mean of its recorded scores, it is strong_support iff m > 0.6,
\* moderate_support iff 0.2 < m <= 0.6, neutral iff -0.2 < m <= 0.2, concern
\* iff -0.6 < m <= -0.2 and strong_opposition iff m <= -0.6: a mean exactly
\* on a threshold is in the lower bucket.
C12_ConsensusStrictThresholds ==
    \A id \in {"p1", "p2", "p9"} :
        LET recorded == GetSentimentTrend(id)
            n == Len(recorded)
            total == SumSeq(recorded)
            c == GetCommunityConsensus(id)
        IN /\ n = 0 => c = "neutral"
           /\ n > 0 =>
                /\ c = "strong_support" <=> total > 6 * n
                /\ c = "moderate_support" <=> (total > 2 * n /\ total <= 6 * n)
                /\ c = "neutral" <=> (total > (-2) * n /\ total <= 2 * n)
                /\ c = "concern" <=> (total > (-6) * n /\ total <= (-2) * n)
                /\ c = "strong_opposition" <=> total <= (-6) * n

\* samples of 0.5 and 0.7 give exactly 0.6 for p1, and p2 has no sample
C12_Witness ==
    /\ GetSentimentTrend("p1") = <<5, 7>>
    /\ GetCommunityConsensus("p1") = "moderate_support"
    /\ "p2" \notin DOMAIN sentiment_entries
    /\ GetCommunityConsensus("p2") = "neutral"

\* ---------------------------------------------------------------- properties: VoteReasoning
\* the sum of the values of a map of numbers
RECURSIVE SumValues(_, _)
SumValues(d, keys) ==
    IF keys = {} THEN 0
    ELSE LET k == CHOOSE x \in keys : TRUE
         IN d[k].v + SumValues(d, keys \ {k})

\* C13: with s the mean of the sentiment map and a the mean of the preference
\* map (0 for an empty map), the decision stored by analyze_proposal is: the
\* first option ("for" without options), confidence 0.75, risk low if s > 0.5
\* and a > 0.5; else the last option ("against" without options), confidence
\* 0.6, risk medium if s < -0.3 or a < 0.3; else the second option ("abstain"
\* with fewer than two options), confidence 0.5, risk medium.
C13_RulesInOrder ==
    last.op = "analyze_proposal" =>
        LET context == last.args[1]
            opts == context.voting_options
            cs == context.community_sentiment
            hp == context.historical_preferences
            nS == Cardinality(DOMAIN cs)
            nP == Cardinality(DOMAIN hp)
            \* 10 * nS * s and 10 * nP * a
            s == SumValues(cs, DOMAIN cs)
            a == SumValues(hp, DOMAIN hp)
            first == nS > 0 /\ nP > 0 /\ s > 5 * nS /\ a > 5 * nP
            second == (nS > 0 /\ s < (-3) * nS) \/ nP = 0 \/ a < 3 * nP
            d == decision_history[context.proposal_id]
        IN /\ context.proposal_id \in DOMAIN decision_history
           /\ d.proposal_id = context.proposal_id
           /\ first =>
                /\ d.choice = IF opts = << >> THEN "for" ELSE Head(opts)
                /\ d.confidence = 75
                /\ d.risk_assessment = "low"
           /\ (~first /\ second) =>
                /\ d.choice = IF opts = << >> THEN "against" ELSE opts[Len(opts)]
                /\ d.confidence = 60
                /\ d.risk_assessment = "medium"
           /\ (~first /\ ~second) =>
                /\ d.choice = IF Len(opts) >= 2 THEN opts[2] ELSE "abstain"
                /\ d.confidence = 50
                /\ d.risk_assessment = "medium"

\* a sentiment mean of exactly 0.5 with an alignment of 0.6 and one option:
\* the third rule applies, and p2 was decided by the first rule before
C13_Witness ==
    /\ last.op = "analyze_proposal"
    /\ last.args[1].proposal_id = "p1"
    /\ DOMAIN last.args[1].community_sentiment = {"forum", "twitter"}
    /\ last.args[1].community_sentiment["twitter"].v = 2
    /\ last.args[1].historical_preferences = [k \in {"support"} |-> Float(6)]
    /\ last.args[1].voting_options = <<"For">>
    /\ decision_history["p1"].choice = "abstain"
    /\ decision_history["p1"].confidence = 50
    /\ "p2" \in DOMAIN decision_history
    /\ decision_history["p2"].choice = "for"
    /\ decision_history["p2"].confidence = 75
    /\ decision_history["p2"].risk_assessment = "low"

\* ---------------------------------------------------------------- properties: JustificationReporter
\* C14: the hash of a report depends on its reasoning text only: two stored
\* reports with the same text have the same hash whatever their proposal id,
\* choice, confidence, sentiment snapshot, data sources and time, and a report
\* rebuilt with the text of the report it replaces, or with the text of a
\* report built earlier, has that report's hash.
C14_SameTextSameHash ==
    \A p, q \in DOMAIN reports :
        reports[p].detailed_reasoning = reports[q].detailed_reasoning =>
            reports[p].reasoning_hash = reports[q].reasoning_hash

C14_Step ==
    \A p \in DOMAIN reports', q \in DOMAIN reports :
        reports'[p].detailed_reasoning = reports[q].detailed_reasoning =>
            reports'[p].reasoning_hash = reports[q].reasoning_hash

C14_HashOfTextOnly == []C14_SameTextSameHash /\ [][C14_Step]_vars

\* p1 and p2 hold reports of the same text that differ in everything else,
\* the one of p1 built last
C14_Witness ==
    /\ last.op = "create_justification_report"
    /\ last.args[1] = "p1"
    /\ DOMAIN reports = {"p1", "p2"}
    /\ reports["p1"].detailed_reasoning = "Vote for."
    /\ reports["p2"].detailed_reasoning = "Vote for."
    /\ reports["p1"].vote_choice # reports["p2"].vote_choice
    /\ reports["p1"].timestamp # reports["p2"].timestamp
    /\ reports["p1"].sentiment_snapshot # reports["p2"].sentiment_snapshot
    /\ reports["p1"].data_sources # reports["p2"].data_sources
    /\ reports["p1"].reasoning_hash = "3282d8a1768ec096"
    /\ reports["p2"].reasoning_hash = "3282d8a1768ec096"

\* ---------------------------------------------------------------- properties: PreferenceMemory
\* C15: PreferenceMemory.record_proposal_outcome(category, passed) sets the
\* success rate of the category to rate * 0.7 + (1.0 if passed else 0.0) * 0.3,
\* rate being its current value or 0.5 for a category not seen before (0.5 and
\* passed give 0.65), and changes the rate of no other category.
C15_Step ==
    noutcomes' = noutcomes + 1 =>
        LET category == last'.args[2]
            passed == last'.args[4]
            rate == IF category \in DOMAIN category_success_rate
                    THEN category_success_rate[category] ELSE RateScale \div 2
        IN /\ category \in DOMAIN category_success_rate'
           /\ 10 * category_success_rate'[category] =
                  7 * rate + (IF passed THEN 3 * RateScale ELSE 0)
           /\ (category \notin DOMAIN category_success_rate /\ passed) =>
                  100 * category_success_rate'[category] = 65 * RateScale
           /\ DOMAIN category_success_rate' = DOMAIN category_success_rate \cup {category}
           /\ \A other \in DOMAIN category_success_rate \ {category} :
                  category_success_rate'[other] = category_success_rate[other]

C15_CategoryRateEma == [][C15_Step]_vars

\* security: passed, then failed (0.5 -> 0.65 -> 0.455); treasury: failed (0.35)
C15_Witness ==
    /\ last.op = "preference.record_proposal_outcome"
    /\ noutcomes = 3
    /\ DOMAIN category_success_rate = {"security", "treasury"}
    /\ 1000 * category_success_rate["security"] = 455 * RateScale
    /\ 100 * category_success_rate["treasury"] = 35 * RateScale

\* ---------------------------------------------------------------- properties: learning
\* C16: every category success rate and every organization's prediction
\* accuracy is within [0, 1], whether stored or read, and the read of a
\* category or of an organization that was never observed is 0.5.
C16_RatesWithinUnitInterval ==
    /\ \A category \in DOMAIN category_success_rate :
          category_success_rate[category] >= 0 /\ category_success_rate[category] <= RateScale
    /\ \A dao \in DOMAIN prediction_accuracy :
          prediction_accuracy[dao] >= 0 /\ prediction_accuracy[dao] <= Scale
    /\ \A category \in Categories \cup {"general"} :
          /\ GetCategorySuccessRate(category) >= 0
          /\ GetCategorySuccessRate(category) <= RateScale
          /\ category \notin DOMAIN category_success_rate =>
                 2 * GetCategorySuccessRate(category) = RateScale
    /\ \A dao \in {"uniswap", "aave", "compound"} :
          LET acc == GetPredictionAccuracy(dao)
          IN /\ acc[2] > 0
             /\ acc[1] >= 0
             /\ acc[1] <= Scale * acc[2]
             /\ dao \notin DOMAIN prediction_accuracy => 2 * acc[1] = Scale * acc[2]

\* after three outcomes and three predictions security and uniswap are
\* tracked away from 0.5 while treasury and aave were never observed
C16_Witness ==
    /\ noutcomes = 3
    /\ npredictions = 3
    /\ DOMAIN category_success_rate = {"security"}
    /\ 10000 * category_success_rate["security"] = 8285 * RateScale
    /\ DOMAIN prediction_accuracy = {"uniswap"}
    /\ 1000 * prediction_accuracy["uniswap"] = 256 * Scale
    /\ 2 * GetCategorySuccessRate("treasury") = RateScale
    /\ 2 * GetPredictionAccuracy("aave")[1] = Scale * GetPredictionAccuracy("aave")[2]

\* the accuracy updates of an organization, in order
UpdatesOf(dao) ==
    LET ups == SelectSeq(prediction_log, LAMBDA u : u[1] = dao)
    IN [i \in 1..Len(ups) |-> ups[i][2]]

\* the scaled accuracy after a sequence of updates, from 0.5
RECURSIVE AccuracyAfter(_)
AccuracyAfter(ups) ==
    IF ups = << >> THEN Scale \div 2
    ELSE LET before == AccuracyAfter(SubSeq(ups, 1, Len(ups) - 1))
         IN (8 * before + (IF ups[Len(ups)] THEN 2 * Scale ELSE 0)) \div 10

\* C17: the accuracy of an organization is the result of its updates applied
\* in their order, each to the value the previous one left, and the order
\* matters: one correct then one incorrect prediction end at 0.48, one
\* incorrect then one correct prediction end at 0.52.
C17_OrderDependent ==
    /\ AccuracyAfter(<<TRUE, FALSE>>) # AccuracyAfter(<<FALSE, TRUE>>)
    /\ \A dao \in DOMAIN prediction_accuracy :
          LET ups == UpdatesOf(dao)
          IN /\ prediction_accuracy[dao] = AccuracyAfter(ups)
             /\ ups = <<TRUE, FALSE>> => 100 * prediction_accuracy[dao] = 48 * Scale
             /\ ups = <<FALSE, TRUE>> => 100 * prediction_accuracy[dao] = 52 * Scale
             /\ (Len(ups) = 2 /\ ups[1] # ups[2]) =>
                    prediction_accuracy[dao] # AccuracyAfter(<<ups[2], ups[1]>>)

\* uniswap after an incorrect and then a correct prediction: 0.52, where the
\* other order gives 0.48
C17_Witness ==
    /\ "uniswap" \in DOMAIN prediction_accuracy
    /\ UpdatesOf("uniswap") = <<FALSE, TRUE>>
    /\ 100 * prediction_accuracy["uniswap"] = 52 * Scale
    /\ 100 * AccuracyAfter(<<TRUE, FALSE>>) = 48 * Scale

\* C18: the pass rate of an organization without a recorded outcome is
\* exactly 0.5; otherwise it is the number of proposal ids whose record is of
\* the organization and passed, divided by the number of proposal ids whose
\* record is of the organization (a proposal id has one record, its latest).
C18_PassRate ==
    \A dao \in {"uniswap", "aave", "compound"} :
        LET ids == {id \in DOMAIN outcomes : outcomes[id].dao = dao}
            passed == {id \in ids : outcomes[id].passed}
            rate == GetPassRate(dao)
        IN /\ rate[2] > 0
           /\ ids = {} => 2 * rate[1] = rate[2]
           /\ ids # {} => rate[1] * Cardinality(ids) = Cardinality(passed) * rate[2]

\* p1 was recorded again, after a prediction, and now both records of uniswap
\* are passed ones (rate 1) while aave has none (rate 0.5)
C18_Witness ==
    /\ last.op = "record_proposal_outcome"
    /\ last.args[1] = "p1"
    /\ npredictions = 1
    /\ DOMAIN outcomes = {"p1", "p2"}
    /\ outcomes["p1"].dao = "uniswap" /\ outcomes["p1"].passed
    /\ outcomes["p2"].dao = "uniswap" /\ outcomes["p2"].passed
    /\ GetPassRate("uniswap")[1] = GetPassRate("uniswap")[2]
    /\ 2 * GetPassRate("aave")[1] = GetPassRate("aave")[2]

\* C19: record_proposal_outcome stores participation_count / total_eligible
\* as the participation rate when total_eligible > 0 (45 thousand of 200
\* thousand give 0.225) and 0 when total_eligible <= 0; the record it stores
\* replaces the record of the proposal id as a whole (organization, passed
\* flag, rate, and the predicted-vs-actual tag, which is unset again) and no
\* other record changes.
C19_Step ==
    (last'.op = "record_proposal_outcome" /\ (last' # last \/ outcomes' # outcomes)) =>
        LET id == last'.args[1]
            count == last'.args[4]
            total == last'.args[5]
            rate == outcomes'[id].participation_rate
        IN /\ id \in DOMAIN outcomes'
           /\ rate[2] > 0
           /\ total > 0 => rate[1] * total = count * rate[2]
           /\ (count = 45 /\ total = 200) => 1000 * rate[1] = 225 * rate[2]
           /\ total <= 0 => rate[1] = 0
           /\ outcomes'[id].dao = last'.args[2]
           /\ outcomes'[id].passed = last'.args[3]
           /\ outcomes'[id].participation_count = count
           /\ outcomes'[id].predicted_vs_actual = "None"
           /\ DOMAIN outcomes' = DOMAIN outcomes \cup {id}
           /\ \A other \in DOMAIN outcomes \ {id} : outcomes'[other] = outcomes[other]

C19_OutcomeRecordReplaced == [][C19_Step]_vars

\* p1, recorded under uniswap and tagged by a prediction, was recorded again
\* under aave with no eligible voter
C19_Witness ==
    /\ last.op = "record_proposal_outcome"
    /\ last.args = <<"p1", "aave", FALSE, 3, 0>>
    /\ prediction_log = << <<"uniswap", TRUE>> >>
    /\ outcomes["p1"].dao = "aave"
    /\ outcomes["p1"].participation_rate[1] = 0
    /\ outcomes["p1"].predicted_vs_actual = "None"

\* ---------------------------------------------------------------- properties: preference patterns
\* C20: right after record_community_value there is exactly one pattern for
\* the given category and value name, and it holds the given description and
\* supporting ids and confidence 0.5, whatever was stored or adjusted before;
\* the confidence of every stored pattern is within [0, 1]; a record call
\* changes no pattern of another id, and a confidence update changes nothing
\* but the confidence of the pattern it addresses.
C20_AfterRecord ==
    last.op = "record_community_value" =>
        LET category == last.args[2]
            pattern_id == PatternId(category, last.args[1])
            found == {k \in DOMAIN patterns :
                         patterns[k].pattern_id = pattern_id /\ patterns[k].category = category}
        IN /\ found = {pattern_id}
           /\ patterns[pattern_id].description = last.args[3]
           /\ patterns[pattern_id].supporting_proposals = last.args[4]
           /\ patterns[pattern_id].confidence = 50

C20_ConfidenceWithinUnitInterval ==
    \A k \in DOMAIN patterns :
        /\ patterns[k].pattern_id = k
        /\ patterns[k].confidence >= 0
        /\ patterns[k].confidence <= 100

C20_Step ==
    /\ \A k \in DOMAIN patterns :
          /\ k \in DOMAIN patterns'
          /\ k # pattern_log'[Len(pattern_log')][2] => patterns'[k] = patterns[k]
    /\ pattern_log'[Len(pattern_log')][1] = "update" =>
          /\ DOMAIN patterns' = DOMAIN patterns
          /\ \A k \in DOMAIN patterns :
                 [patterns'[k] EXCEPT !.confidence = 0] = [patterns[k] EXCEPT !.confidence = 0]

C20_ValueUpsert ==
    [](C20_AfterRecord /\ C20_ConfidenceWithinUnitInterval) /\ [][C20_Step]_vars

\* a value is recorded, its confidence is raised to 1 (asked: 1.5), and it is
\* recorded again with another description
C20_Witness ==
    /\ pattern_log = << <<"record", PatternId("security", "audits")>>,
                        <<"update", PatternId("security", "audits")>>,
                        <<"record", PatternId("security", "audits")>> >>
    /\ last.op = "record_community_value"
    /\ last.args[3] = "d2"
    /\ patterns[PatternId("security", "audits")].description = "d2"
    /\ patterns[PatternId("security", "audits")].supporting_proposals = <<"p1", "p2">>
    /\ patterns[PatternId("security", "audits")].confidence = 50

\* ---------------------------------------------------------------- properties: transparency score
\* the number of sources of a data_sources argument
NumSources(data_sources) ==
    IF data_sources = None THEN 0 ELSE Cardinality(DOMAIN data_sources)

\* C21: the transparency score is the sum of a length term (0.3 above 1000
\* characters, 0.2 above 500, else 0), a source term (0.4 for three or more
\* sources, 0.3 for two, 0.2 for one, 0 for none) and 0.05 for each detail
\* keyword present up to 0.3, capped at 1; it lies between 0 and 1
C21_ScoreIsSumOfTerms ==
    last.op = "_calculate_transparency_score" =>
        LET reasoning == last.args[1]
            n == NumSources(last.args[2])
            k == Cardinality(reasoning.keywords)
            score == returned.args[1]
            length_term == CASE reasoning.length > 1000 -> 30
                             [] reasoning.length > 500 /\ reasoning.length <= 1000 -> 20
                             [] OTHER -> 0
            source_term == CASE n = 0 -> 0 [] n = 1 -> 20 [] n = 2 -> 30 [] OTHER -> 40
            keyword_term == IF 5 * k > 30 THEN 30 ELSE 5 * k
        IN /\ returned.op = "_calculate_transparency_score"
           /\ score = (IF length_term + source_term + keyword_term > 100 THEN 100
                       ELSE length_term + source_term + keyword_term)
           /\ score >= 0 /\ score <= 100

\* C21: between two consecutive scorings, when the text did not get shorter,
\* the number of sources did not get smaller and the keywords present are the
\* same, the score does not decrease
C21_Step ==
    (/\ last.op = "_calculate_transparency_score"
     /\ last'.op = "_calculate_transparency_score"
     /\ last'.args[1].length >= last.args[1].length
     /\ last'.args[1].keywords = last.args[1].keywords
     /\ NumSources(last'.args[2]) >= NumSources(last.args[2]))
        => returned'.args[1] >= returned.args[1]

C21_TransparencyScore == []C21_ScoreIsSumOfTerms /\ [][C21_Step]_vars

\* a text of more than 1000 characters with all six keywords and four sources
\* has been scored 1.0, the largest sum of the three terms
C21_Witness ==
    /\ last.op = "_calculate_transparency_score"
    /\ last.args[1] = Text(1001, DetailKeywords)
    /\ NumSources(last.args[2]) = 4
    /\ returned.args[1] = 100

\* ---------------------------------------------------------------- properties: analyze_proposal
\* C22: two analyze_proposal calls with the same context return the same
\* choice, confidence, factors, alignment and risk (the same decision),
\* whatever was analyzed between them and whatever the history holds
C22_AnalyzeIsFunctionOfContext ==
    \A i \in 1..Len(analysis_log), j \in 1..Len(analysis_log) :
        analysis_log[i].context = analysis_log[j].context =>
            LET d == analysis_log[i].decision
                e == analysis_log[j].decision
            IN /\ d.choice = e.choice
               /\ d.confidence = e.confidence
               /\ d.primary_factors = e.primary_factors
               /\ d.secondary_factors = e.secondary_factors
               /\ d.alignment_with_dao_values = e.alignment_with_dao_values
               /\ d.risk_assessment = e.risk_assessment
               /\ d = e

\* p1 was analyzed with a context decided "For", then with another context
\* decided "Against" by the third rule (which replaced the stored decision), then with the first
\* context again, and the first answer came back
C22_Witness ==
    /\ Len(analysis_log) = 3
    /\ analysis_log[1].context = analysis_log[3].context
    /\ analysis_log[1].context.proposal_id = "p1"
    /\ analysis_log[2].context.proposal_id = "p1"
    /\ analysis_log[1].decision.choice = "For"
    /\ analysis_log[2].decision.choice = "Against"
    /\ analysis_log[2].decision.confidence = 50
    /\ analysis_log[3].decision.choice = "For"
    /\ analysis_log[3].decision.confidence = 75
    /\ decision_history["p1"] = analysis_log[3].decision

\* ---------------------------------------------------------------- properties: no retry
\* the number of Aggregator calls the running (or last) cycle has made
AggregatorCalls ==
    Len(SelectSeq(cycle_log, LAMBDA ev : ev[1] \in {"FETCH", "FETCH_FAILED"}))

\* the number of votes the cycle has handed to the VoteCaster
VoteCalls == Len(SelectSeq(cycle_log, LAMBDA ev : ev[1] \in {"CAST", "QUEUE"}))

\* C23 as stated: a cycle that has ended has called the Aggregator exactly
\* once for its organization, whether the call succeeded or failed
C23_AggregatorCalledExactlyOnce ==
    (CycleEnded /\ ncycles > 0) => AggregatorCalls = 1

\* C23 as amended: a cycle calls the Aggregator at most once; a cycle that
\* has ended has called it exactly once when its organization is a configured
\* one and not at all otherwise; a failed call is the only event of its cycle;
\* and the cycle hands at most one vote per justified proposal to the VoteCaster
C23_NoRetry ==
    /\ AggregatorCalls <= 1
    /\ (CycleEnded /\ ncycles > 0) =>
          AggregatorCalls = (IF cycle_dao \in SupportedDaos THEN 1 ELSE 0)
    /\ FetchFailed => cycle_log = << <<"FETCH_FAILED", cycle_dao>> >> /\ cycle_state = "FAILED"
    /\ VoteCalls <= Len(LoggedIds("JUSTIFY"))

\* the Aggregator call of a second cycle for aave failed: the cycle ended
\* with that one call, after a first cycle had cast a vote
C23_Witness ==
    /\ cycle_state = "FAILED"
    /\ cycle_dao = "aave"
    /\ ncycles = 2
    /\ AggregatorCalls = 1
    /\ FetchFailed
    /\ votes_cast # EmptyDict

\* ---------------------------------------------------------------- properties: independent organizations
\* the state of an organization: its proposal index and the records it
\* returns, the decisions and reports of its proposals, its votes cast and
\* queued, its outcomes and its accuracy
OrgState(org) ==
    LET ids == Get(dao_index, org, << >>)
        idset == {ids[i] : i \in 1..Len(ids)}
    IN [index |-> ids,
        records |-> GetDaoProposals(org),
        decisions |-> [id \in idset \cap DOMAIN decision_history |-> decision_history[id]],
        reports |-> [id \in idset \cap DOMAIN reports |-> reports[id]],
        votes |-> {votes_cast[id] : id \in {i \in DOMAIN votes_cast : votes_cast[i].dao = org}},
        pending |-> SelectSeq(pending_votes, LAMBDA v : v.dao = org),
        outcomes |-> GetDaoOutcomes(org),
        accuracy |-> Get(prediction_accuracy, org, DefaultAccuracy)]

\* C24: cycles for two different organizations leave each organization's
\* state as the two cycles run one after the other would, in either order. A
\* cycle runs without yielding, so the interleavings are the two orders, and
\* the orders agree on an organization's state when no step of the cycle of
\* one organization changes the state of another organization
C24_Step ==
    ~NoCycleRunning =>
        \A org \in CycleDaos \ {cycle_dao} : OrgState(org)' = OrgState(org)

C24_CyclesIndependent == [][C24_Step]_vars

\* ---------------------------------------------------------------- properties: unknown keys
\* the stores of the memory layers, the reasoning engine and the vote caster
Stores ==
    <<proposals, dao_index, sentiment_entries, sentiment_trends, outcomes, prediction_accuracy,
      patterns, voting_history, category_success_rate, decision_history, reports,
      votes_cast, pending_votes>>

\* C25: get of an unknown proposal or outcome returns nothing, and the
\* aggregate and the trend of a proposal without samples are empty
C25_EmptyResults ==
    /\ (last.op = "get_proposal" /\ last.args[1] \notin DOMAIN proposals)
          => returned = [op |-> "get_proposal", args |-> <<None>>]
    /\ (last.op = "get_proposal_outcome" /\ last.args[1] \notin DOMAIN outcomes)
          => returned = [op |-> "get_proposal_outcome", args |-> <<None>>]
    /\ (last.op = "get_proposal_sentiment" /\ last.args[1] \notin DOMAIN sentiment_entries)
          => /\ returned.op = "get_proposal_sentiment"
             /\ returned.args[1].empty
             /\ returned.args[1].by_source = EmptyDict
    /\ (last.op = "get_sentiment_trend" /\ last.args[1] \notin DOMAIN sentiment_trends)
          => returned = [op |-> "get_sentiment_trend", args |-> << << >> >>]

\* C25: a get, an aggregate or a trend, and an annotation, a status update or
\* a confidence update addressed to a key that is not in the store, changes
\* no store
C25_Step ==
    LET op == last'.op
        key == last'.args[1]
    IN (\/ op \in {"get_proposal", "get_proposal_outcome", "get_proposal_sentiment",
                   "get_sentiment_trend"}
        \/ /\ op \in {"add_reasoning_points", "add_key_arguments", "set_expected_impact",
                      "update_status"}
           /\ key \notin DOMAIN proposals
        \/ /\ op = "update_pattern_confidence"
           /\ key \notin DOMAIN patterns)
          => Stores' = Stores

C25_UnknownKeysNoEffect == []C25_EmptyResults /\ [][C25_Step]_vars

\* a status update was addressed to the unknown proposal id after p1 was
\* stored, a sample and an outcome recorded and a get of the unknown id made:
\* the get returned None and p1 is the only proposal, still active
C25_Witness ==
    /\ last = [op |-> "update_status", args |-> <<UnknownId, "ended">>]
    /\ returned = [op |-> "get_proposal", args |-> <<None>>]
    /\ DOMAIN proposals = {"p1"}
    /\ proposals["p1"].status = "active"
    /\ DOMAIN sentiment_entries = {"p1"}
    /\ DOMAIN outcomes = {"p1"}
    /\ DOMAIN patterns # {}

\* ---------------------------------------------------------------- properties: content hash of edited texts
\* t is s with one character replaced, removed or inserted
OneCharacterChange(s, t) ==
    \/ /\ Len(s) = Len(t)
       /\ s # t
       /\ \E i \in 1..Len(s) :
             /\ SubSeq(s, 1, i - 1) = SubSeq(t, 1, i - 1)
             /\ SubSeq(s, i + 1, Len(s)) = SubSeq(t, i + 1, Len(t))
    \/ \E a \in {s, t}, b \in {s, t} :
          /\ Len(b) = Len(a) + 1
          /\ \E i \in 1..Len(b) :
                /\ SubSeq(a, 1, i - 1) = SubSeq(b, 1, i - 1)
                /\ SubSeq(a, i, Len(a)) = SubSeq(b, i + 1, Len(b))

LastPending(id) ==
    LET mine == SelectSeq(pending_votes, LAMBDA v : v.proposal_id = id)
    IN mine[Len(mine)]

\* C27: a vote the running (or last) cycle has cast or queued for a proposal
\* carries the content hash of the report the same cycle built for that
\* proposal, which is the digest of that report's reasoning, and the choice of
\* that report and of the decision it justifies
C27_VoteCarriesReportHash ==
    \A j \in 1..Len(cycle_log) :
        LET kind == cycle_log[j][1]
            id == cycle_log[j][2]
        IN kind \in {"CAST", "QUEUE"} =>
              /\ \E i \in 1..(j - 1) : cycle_log[i] = <<"JUSTIFY", id>>
              /\ id \in DOMAIN reports /\ id \in DOMAIN decision_history
              /\ reports[id].reasoning_hash = Sha256PrefixOfSummary(reports[id].detailed_reasoning)
              /\ reports[id].vote_choice = decision_history[id].choice
              /\ reports[id].detailed_reasoning = decision_history[id].reasoning_summary
              /\ kind = "CAST" =>
                    /\ id \in DOMAIN votes_cast
                    /\ votes_cast[id].justification_hash = reports[id].reasoning_hash
                    /\ votes_cast[id].vote_choice = reports[id].vote_choice
              /\ kind = "QUEUE" =>
                    /\ \E k \in 1..Len(pending_votes) : pending_votes[k].proposal_id = id
                    /\ LastPending(id).justification_hash = reports[id].reasoning_hash
                    /\ LastPending(id).choice = reports[id].vote_choice

\* a cycle has cast the votes of p1 and of p2, each with the digest of the
\* reasoning of its own report and with the choice of its decision
C27_Witness ==
    /\ CycleEnded
    /\ Logged("CAST", "p1") /\ Logged("CAST", "p2")
    /\ votes_cast["p1"].justification_hash = "08a8601da834ba72"
    /\ votes_cast["p1"].vote_choice = "Against"
    /\ votes_cast["p2"].justification_hash = "c43f57c45dbe604f"
    /\ votes_cast["p2"].vote_choice = "abstain"
    /\ reports["p2"].reasoning_hash = "c43f57c45dbe604f"

\* ---------------------------------------------------------------- properties: the organization of indexed proposals
\* C28: every proposal get_dao_proposals returns for an organization has
\* that organization, also when an id first stored under one organization was
\* stored again under another
C28_IndexedUnderOwnOrganization ==
    \A dao \in DOMAIN dao_index :
        \A i \in 1..Len(GetDaoProposals(dao)) : GetDaoProposals(dao)[i].dao = dao

\* ---------------------------------------------------------------- properties: predictions without outcome
\* C29: a record_prediction call for a proposal id that has no recorded
\* outcome changes nothing: no outcome is created or tagged, no accuracy is
\* created or updated, and no other store changes
C29_Step ==
    (/\ npredictions' = npredictions + 1
     /\ last'.op = "record_prediction"
     /\ last'.args[1] \notin DOMAIN outcomes)
        => /\ outcomes' = outcomes
           /\ prediction_accuracy' = prediction_accuracy
           /\ UNCHANGED <<proposals, dao_index, sentVars, patterns, voting_history,
                          category_success_rate, engineVars, casterVars>>

C29_PredictionWithoutOutcome == [][C29_Step]_vars

\* a prediction for p2, which has no outcome, was recorded after the outcome
\* of p1 and a correct prediction for p1: the accuracy of p1's organization is
\* still 0.6 and it is the only one
C29_Witness ==
    /\ last.op = "record_prediction"
    /\ last.args[1] = "p2"
    /\ DOMAIN outcomes = {"p1"}
    /\ outcomes["p1"].predicted_vs_actual = "correct"
    /\ npredictions = 2
    /\ DOMAIN prediction_accuracy = {outcomes["p1"].dao}
    /\ 10 * prediction_accuracy[outcomes["p1"].dao] = 6 * Scale

\* ---------------------------------------------------------------- properties: pending votes
\* C30: once reject_pending_vote(p) has returned True, a later
\* approve_pending_vote(p) casts p only if p was queued again in between
C30_RejectedStaysRejected ==
    \A i \in 1..Len(caster_log), j \in 1..Len(caster_log) :
        (/\ i < j
         /\ caster_log[i][1] = "reject_pending_vote" /\ caster_log[i][3]
         /\ caster_log[j][1] = "approve_pending_vote" /\ caster_log[j][3]
         /\ caster_log[j][2] = caster_log[i][2])
            => \E k \in (i + 1)..(j - 1) :
                  /\ caster_log[k][1] = "cast_vote_with_delegation_option"
                  /\ caster_log[k][2] = caster_log[i][2]

\* C30: a vote queued for approval reaches votes_cast only through
\* approve_pending_vote, which removes one pending vote of the proposal and
\* casts it with that vote's choice and justification hash
C30_Step ==
    /\ (votes_cast' # votes_cast) =>
          \/ last'.op = "approve_pending_vote"
          \/ last'.op = "cast_vote_with_delegation_option" /\ ~last'.args[5]
    /\ (last'.op = "approve_pending_vote" /\ Len(caster_log') > Len(caster_log)
        /\ caster_log'[Len(caster_log')][3]) =>
          LET id == last'.args[1]
          IN \E i \in 1..Len(pending_votes) :
                /\ pending_votes[i].proposal_id = id
                /\ pending_votes' = WithoutPending(pending_votes, i)
                /\ votes_cast'[id].vote_choice = pending_votes[i].choice
                /\ votes_cast'[id].justification_hash = pending_votes[i].justification_hash

C30_RejectionIsFinal == []C30_RejectedStaysRejected /\ [][C30_Step]_vars
====
